---- MODULE Spec2Model ----
(***************************************************************************)
(* A model of TkClassWizard's conversion core (tkclasswiz/convert.py), its *)
(* type resolver (tkclasswiz/annotations.py) and the object frames that    *)
(* save into storage widgets (tkclasswiz/object_frame).                    *)
(*                                                                         *)
(* Python values are tagged records.  Every kind of value has its own set  *)
(* of field names, so that two values of different kinds are never equal.  *)
(***************************************************************************)
EXTENDS Integers, Sequences, FiniteSets, TLC

VARIABLES
    x,          \* converter: the argument of the conversion under way
    pc,         \* converter: which step of which conversion has been taken
    enc,        \* converter: result of convert_to_dict
    dec,        \* converter: outcome of convert_from_dict
    built,      \* converter: outcome of convert_to_objects
    info,       \* converter: result of convert_to_object_info
    memo,       \* cache of convert_to_dict: <<argument, result>>, least recently used first
    lastArg,    \* argument of the latest call of the memoized convert_to_dict
    ret,        \* what that call returned
    calls,      \* number of calls made
    clsParent,  \* resolver: per class, in order of definition, its base class (0: none)
    clsAbstract,\* resolver: per class whether inspect.isabstract holds of it
    clsWrapped, \* resolver: per class the class its own __wrapped__ names (0: none)
    tann,       \* resolver: the annotation handed to convert_types
    tres,       \* resolver: the outcome of convert_types
    opened_frames, \* window: the frames opened in it, the displayed one last
    listbox,    \* the ListBoxObjects the first frame of the window returns into
    closed,     \* window: whether it has been destroyed
    dialog,     \* whether the latest handler showed an error dialog
    last,       \* the handler that ran last
    ALIASES,    \* aliasing.ALIASES: class -> alias
    ADDITIONAL_ANNOTATIONS,   \* annotations.ADDITIONAL_ANNOTATIONS: class -> parameter -> type
    CONVERSION_ATTR_TO_PARAM, \* convert.CONVERSION_ATTR_TO_PARAM: class -> parameter -> attribute
    clsdict,    \* per class, the attributes register_deprecated has set on it
    script,     \* converter: result of convert_objects_to_script
    castArg,    \* cast_type: the text and the types it is called with
    castRes,    \* cast_type: its outcome
    cls_name_cache, \* the cache of NewObjectFrameBase.get_cls_name: class -> name
    regcall,    \* registries: the latest call made on them and what it handed back
    clipboard,  \* storage.GLOBAL.clipboard
    widgets,    \* the storage widgets of the window that copy and paste act on
    clipcall,   \* the latest copy or paste: the handler and the widget it ran on
    reg_pre_ext,  \* ExtendableFunction.__reg_pre_ext__ of the extendable function
    reg_post_ext, \* ExtendableFunction.__reg_post_ext__ of the extendable function
    extcall,    \* the latest call of the extendable function: who was called with what
    schedule_id,  \* tooltip: BaseToolTip.schedule_id (0: None)
    pending,    \* tooltip: the callbacks Tk holds for it, <<id, kind>>
    visible,    \* tooltip: whether the Toplevel is shown
    tipcall,    \* tooltip: the handler that ran last, and how many ran
    timeout_ms  \* tooltip: BaseToolTip.timeout_ms

convData == <<x, enc, dec, built, info>>
convVars == <<pc, x, enc, dec, built, info>>
memoVars == <<memo, lastArg, ret, calls>>
typeVars == <<clsParent, clsAbstract, clsWrapped, tann, tres>>
frameVars == <<opened_frames, listbox, closed, dialog, last>>
regVars == <<ALIASES, ADDITIONAL_ANNOTATIONS, CONVERSION_ATTR_TO_PARAM, clsdict, regcall, cls_name_cache>>
clipVars == <<clipboard, widgets, clipcall>>
castVars == <<castArg, castRes>>
extendVars == <<reg_pre_ext, reg_post_ext, extcall>>
tipVars == <<schedule_id, pending, visible, tipcall, timeout_ms>>
lateVars == <<extendVars, tipVars>>
extVars == <<regVars, script, castVars, clipVars, lateVars>>
vars == <<x, pc, enc, dec, built, info, memo, lastArg, ret, calls,
          clsParent, clsAbstract, clsWrapped, tann, tres,
          opened_frames, listbox, closed, dialog, last,
          ALIASES, ADDITIONAL_ANNOTATIONS, CONVERSION_ATTR_TO_PARAM, clsdict,
          script, castArg, castRes, regcall, cls_name_cache, clipboard, widgets, clipcall,
          reg_pre_ext, reg_post_ext, extcall, schedule_id, pending, visible, tipcall,
          timeout_ms>>

---------------------------------------------------------------------------
(* Bounds of the value universe *)
MaxInt == 1
MaxListLen == 2
\* Bounds of the memoization runs: calls made, entries a cache holds
MaxCalls == 2
CacheMax == 3
\* Bounds of the class hierarchies: classes defined, __wrapped__ attributes set
MaxClasses == 3
MaxWrappers == 1
\* Bounds of the window: frames open at once, items a storage widget holds
MaxFrames == 2
MaxItems == 1

---------------------------------------------------------------------------
(* Python values *)
IntV(n) == [t |-> "int", i |-> n]
StrV(s) == [t |-> "str", s |-> s]
NoneV == [t |-> "none"]
BoolV(b) == [t |-> "bool", b |-> b]
EnumV(e, m) == [t |-> "enum", e |-> e, m |-> m]
ListV(l) == [t |-> "list", l |-> l]
TupleV(l) == [t |-> "tuple", tu |-> l]
DictV(kv) == [t |-> "dict", kv |-> kv]
ObjV(c, attrs) == [t |-> "obj", cls |-> c, attrs |-> attrs]

\* ObjectInfo.__init__: class_, data and nickname are stored as given.
ObjectInfo(class_, data, nickname) ==
    [t |-> "oi", class_ |-> class_, data |-> data, nickname |-> nickname]

EmptyMap == [k \in {} |-> NoneV]

---------------------------------------------------------------------------
(* The classes the conversions are applied to.  K1, K2 and Z are classes   *)
(* of a host application whose constructors store every parameter under    *)
(* an attribute of the same name; dict is the builtin the decomposition    *)
(* of a mapping is tagged with; Color is an enum.                          *)
(*   class K1:  def __init__(self, a: int, b: int = 0)                     *)
(*   class K2:  def __init__(self, c: K1, u = None)                        *)
(*   class Z:   def __init__(self)                                         *)
(*   class D:   def __init__(self, d: int = 0)                             *)

UserClasses == {"K1", "K2", "K3", "D", "Z"}
EnumClasses == {"Color"}
Classes == UserClasses \cup {"dict"} \cup EnumClasses

\* The base class of a class.  class K3(K1) defines no __init__ of its own;
\* bool is the builtin subclass of int.
Base(c) ==
    CASE c = "K3" -> "K1"
      [] c = "bool" -> "int"
      [] OTHER -> "object"

\* class_.__module__ and class_.__name__
ClassModule(c) == IF c = "dict" THEN "builtins" ELSE "app"
ClassName(c) == c

\* Parameters of class_.__init__, in the order of the signature.
InitParams(c) ==
    CASE c \in {"K1", "K3"} -> <<"a", "b">>
      [] c = "K2" -> <<"c", "u">>
      [] c = "D" -> <<"d">>
      [] OTHER -> <<>>

\* The type hints of class_.__init__: K1.__init__ is declared "-> None".
InitHints(c) ==
    CASE c \in {"K1", "K3"} -> [a |-> "int", b |-> "int", return |-> "NoneType"]
      [] c = "K2" -> [c |-> "K1"]
      [] c = "D" -> [d |-> "int"]
      [] OTHER -> EmptyMap

\* Parameters with a default value, and that value.
InitDefaults(c) ==
    CASE c \in {"K1", "K3"} -> [b |-> IntV(0)]
      [] c = "K2" -> [u |-> NoneV]
      [] c = "D" -> [d |-> IntV(0)]
      [] OTHER -> EmptyMap

EnumMembers(e) == {"R", "G"}
EnumValue(e, m) == IF m = "R" THEN IntV(1) ELSE IntV(2)

\* A callable that typing.get_type_hints rejects with TypeError: an instance
\* of functools.partial has no __annotations__.
Uninspectable == {"partial"}

\* A class whose constructor is annotated with a name that no module defines,
\*   class F:  def __init__(self, a: "Undefined")
\* typing.get_type_hints evaluates the string and raises NameError.
Unresolvable == {"F"}

\* get_type_hints(class_.__init__), or get_type_hints(class_) for what is
\* not a class.
get_type_hints(obj) ==
    IF obj \in Uninspectable THEN [raised |-> TRUE, error |-> "TypeError", hints |-> EmptyMap]
    ELSE IF obj \in Unresolvable THEN [raised |-> TRUE, error |-> "NameError", hints |-> EmptyMap]
    ELSE [raised |-> FALSE, error |-> "", hints |-> InitHints(obj)]

\* with suppress(AttributeError, TypeError): whether an exception of
\* get_type_hints leaves get_annotations.
get_annotations_raises(class_) ==
    LET h == get_type_hints(class_)
    IN h.raised /\ h.error \notin {"AttributeError", "TypeError"}

\* {**a, **b}
Merge(a, b) == [k \in DOMAIN a \cup DOMAIN b |-> IF k \in DOMAIN b THEN b[k] ELSE a[k]]

\* The mapping m without the key k.
Without(m, k) == [j \in DOMAIN m \ {k} |-> m[j]]

\* registry.get(class_, {})
Lookup(registry, class_) == IF class_ \in DOMAIN registry THEN registry[class_] ELSE EmptyMap

\* get_annotations with the reflected annotations merged over the registered ones.
get_annotations_reflected_over(class_) ==
    LET h == get_type_hints(class_)
        annotations == IF h.raised THEN EmptyMap ELSE h.hints
    IN Without(Merge(Lookup(ADDITIONAL_ANNOTATIONS, class_), annotations), "return")

\* get_annotations(class_), when it returns: the hints of the constructor,
\* none when reflection raises TypeError, overridden by the registered ones,
\* without "return".
get_annotations(class_) ==
    LET h == get_type_hints(class_)
        annotations == IF h.raised THEN EmptyMap ELSE h.hints
    IN Without(Merge(annotations, Lookup(ADDITIONAL_ANNOTATIONS, class_)), "return")

\* The registries as the modules define them: datetime.timezone is the one
\* class of the tables that the model keeps.
StockAnnotations == [c \in {"timezone"} |-> [offset |-> "timedelta", name |-> "str"]]
StockRules == [c \in {"timezone"} |-> [offset |-> "utcoffset", name |-> "tzname"]]

\* No class has an attribute of register_deprecated: own maps a class to the
\* attributes set on it, params and types hold the set and the dict objects
\* those attributes refer to, each under the class it was created for.
NoAttributes == [own |-> EmptyMap, params |-> EmptyMap, types |-> EmptyMap]

\* import_class(path): the class whose "<module>.<name>" is path.
CanImport(path) == \E c \in Classes : ClassModule(c) \o "." \o ClassName(c) = path
import_class(path) == CHOOSE c \in Classes : ClassModule(c) \o "." \o ClassName(c) = path

\* The iteration order of the keys of a mapping.
KeyOrder == <<"a", "b", "c", "u", "k", "ghost_field", "d">>
Keys == {KeyOrder[i] : i \in 1..Len(KeyOrder)}

---------------------------------------------------------------------------
(* convert_to_dict *)
RECURSIVE convert_to_dict(_)
convert_to_dict(d) ==
    IF d.t = "oi" THEN
        DictV([type |-> StrV(ClassModule(d.class_) \o "." \o ClassName(d.class_)),
               data |-> DictV([k \in DOMAIN d.data |-> convert_to_dict(d.data[k])]),
               nickname |-> d.nickname])
    ELSE IF d.t = "list" THEN
        ListV([j \in 1..Len(d.l) |-> convert_to_dict(d.l[j])])
    ELSE IF d.t = "enum" THEN
        DictV([type |-> StrV(ClassModule(d.e) \o "." \o ClassName(d.e)),
               value |-> EnumValue(d.e, d.m)])
    ELSE d

---------------------------------------------------------------------------
(* convert_from_dict.  The outcome is the returned value, the warnings     *)
(* emitted (parameter, class) in the order of the warnings.warn calls, and *)
(* whether an exception left the call.                                     *)
Outcome(val, warns, raised) == [val |-> val, warns |-> warns, raised |-> raised]

\* type_(d["value"]): the member of the enum with that value.
EnumLookup(e, v) ==
    IF \E m \in EnumMembers(e) : EnumValue(e, m) = v
    THEN Outcome(EnumV(e, CHOOSE m \in EnumMembers(e) : EnumValue(e, m) = v), <<>>, FALSE)
    ELSE Outcome(NoneV, <<>>, TRUE)

\* type_(d["value"]): one positional argument.  A class binds it to its
\* first parameter and needs every other parameter to have a default.
CallWithValue(type_, v) ==
    IF type_ \in EnumClasses THEN EnumLookup(type_, v)
    ELSE IF type_ = "dict" THEN
        IF v.t = "dict" THEN Outcome(v, <<>>, FALSE) ELSE Outcome(NoneV, <<>>, TRUE)
    ELSE LET ps == InitParams(type_)
         IN IF Len(ps) = 0
               \/ \E j \in 2..Len(ps) : ps[j] \notin DOMAIN InitDefaults(type_)
            THEN Outcome(NoneV, <<>>, TRUE)
            ELSE Outcome(ObjV(type_, [a \in {ps[j] : j \in 1..Len(ps)} |->
                                 IF a = ps[1] THEN v ELSE InitDefaults(type_)[a]]),
                         <<>>, FALSE)

RECURSIVE convert_from_dict(_)
RECURSIVE from_dict_list(_, _, _)
RECURSIVE from_dict_items(_, _, _, _)
RECURSIVE from_dict_items_keep_all(_, _, _, _)

\* [convert_from_dict(item) for item in d]
from_dict_list(l, j, acc) ==
    IF acc.raised \/ j > Len(l) THEN acc
    ELSE LET r == convert_from_dict(l[j])
         IN from_dict_list(l, j + 1,
                Outcome(Append(acc.val, r.val), acc.warns \o r.warns, r.raised))

\* from_dict_items without the test "k in annotations": every key is kept.
from_dict_items_keep_all(type_, kv, j, acc) ==
    IF acc.raised \/ j > Len(KeyOrder) THEN acc
    ELSE LET k == KeyOrder[j]
         IN IF k \notin DOMAIN kv THEN from_dict_items_keep_all(type_, kv, j + 1, acc)
            ELSE LET r == convert_from_dict(kv[k])
                 IN from_dict_items_keep_all(type_, kv, j + 1,
                        Outcome([a \in DOMAIN acc.val \cup {k} |->
                                    IF a = k THEN r.val ELSE acc.val[a]],
                                acc.warns \o r.warns, r.raised))

\* for k, v in d["data"].items(): keep the annotated keys, warn on the others
from_dict_items(type_, kv, j, acc) ==
    IF acc.raised \/ j > Len(KeyOrder) THEN acc
    ELSE LET k == KeyOrder[j]
         IN IF k \notin DOMAIN kv THEN from_dict_items(type_, kv, j + 1, acc)
            ELSE IF k \in DOMAIN get_annotations(type_) THEN
                LET r == convert_from_dict(kv[k])
                IN from_dict_items(type_, kv, j + 1,
                       Outcome([a \in DOMAIN acc.val \cup {k} |->
                                   IF a = k THEN r.val ELSE acc.val[a]],
                               acc.warns \o r.warns, r.raised))
            ELSE from_dict_items(type_, kv, j + 1,
                     Outcome(acc.val, Append(acc.warns, <<k, type_>>), FALSE))

convert_from_dict(d) ==
    IF d.t = "list" THEN
        LET r == from_dict_list(d.l, 1, Outcome(<<>>, <<>>, FALSE))
        IN Outcome(ListV(r.val), r.warns, r.raised)
    ELSE IF d.t = "dict" THEN
        IF "type" \notin DOMAIN d.kv \/ d.kv["type"].t # "str"
           \/ ~CanImport(d.kv["type"].s)
        THEN Outcome(NoneV, <<>>, TRUE)
        ELSE LET type_ == import_class(d.kv["type"].s)
             IN IF "value" \in DOMAIN d.kv THEN
                    CallWithValue(type_, d.kv["value"])
                ELSE IF "data" \notin DOMAIN d.kv \/ d.kv["data"].t # "dict"
                THEN Outcome(NoneV, <<>>, TRUE)
                ELSE LET r == from_dict_items(type_, d.kv["data"].kv, 1,
                                              Outcome(EmptyMap, <<>>, FALSE))
                     IN Outcome(ObjectInfo(type_, r.val,
                                    IF "nickname" \in DOMAIN d.kv
                                    THEN d.kv["nickname"] ELSE NoneV),
                                r.warns, r.raised)
    ELSE Outcome(d, <<>>, FALSE)

---------------------------------------------------------------------------
(* convert_to_objects.  The outcome is the returned value, the constructor *)
(* calls made, in the order they were made, and whether an exception left  *)
(* the call.  Each call is recorded with the place in the argument of the  *)
(* ObjectInfo it was made for: the keys and indexes that lead to it.       *)
Built(val, log, raised) == [val |-> val, log |-> log, raised |-> raised]
Call(path, class_, kwargs) == [path |-> path, class_ |-> class_, kwargs |-> kwargs]

\* The indexes of a sequence as steps of a path.
IndexNames == <<"[0]", "[1]", "[2]", "[3]">>

\* The elements of a list or a tuple.
Items(v) == IF v.t = "list" THEN v.l ELSE v.tu

\* d.class_(**data_conv): dict takes any keyword; an enum takes its value;
\* a class of the application takes its parameters, those without a default
\* being required, and stores each under the attribute of the same name.
Construct(class_, kwargs) ==
    IF class_ = "dict" THEN [val |-> DictV(kwargs), raised |-> FALSE]
    ELSE IF class_ \in EnumClasses THEN
        IF DOMAIN kwargs = {"value"}
        THEN LET e == EnumLookup(class_, kwargs["value"])
             IN [val |-> e.val, raised |-> e.raised]
        ELSE [val |-> NoneV, raised |-> TRUE]
    ELSE LET ps == {InitParams(class_)[j] : j \in 1..Len(InitParams(class_))}
         IN IF /\ DOMAIN kwargs \subseteq ps
               /\ \A p \in ps : p \in DOMAIN kwargs \/ p \in DOMAIN InitDefaults(class_)
            THEN [val |-> ObjV(class_, [p \in ps |->
                              IF p \in DOMAIN kwargs THEN kwargs[p]
                              ELSE InitDefaults(class_)[p]]),
                  raised |-> FALSE]
            ELSE [val |-> NoneV, raised |-> TRUE]

RECURSIVE convert_to_objects(_, _)
RECURSIVE objects_list(_, _, _, _)
RECURSIVE objects_items(_, _, _, _)
RECURSIVE convert_object_info(_, _)
RECURSIVE convert_object_info_parent_first(_, _)

\* [convert_to_objects(item) for item in d]
objects_list(l, path, j, acc) ==
    IF acc.raised \/ j > Len(l) THEN acc
    ELSE LET r == convert_to_objects(l[j], Append(path, IndexNames[j]))
         IN objects_list(l, path, j + 1,
                Built(Append(acc.val, r.val), acc.log \o r.log, r.raised))

\* {k: convert_to_objects(v) if isinstance(v, (list, tuple, set, ObjectInfo, dict))
\*     else v for k, v in items}
objects_items(kv, path, j, acc) ==
    IF acc.raised \/ j > Len(KeyOrder) THEN acc
    ELSE LET k == KeyOrder[j]
         IN IF k \notin DOMAIN kv THEN objects_items(kv, path, j + 1, acc)
            ELSE LET r == IF kv[k].t \in {"list", "tuple", "oi", "dict"}
                          THEN convert_to_objects(kv[k], Append(path, k))
                          ELSE Built(kv[k], <<>>, FALSE)
                 IN objects_items(kv, path, j + 1,
                        Built([a \in DOMAIN acc.val \cup {k} |->
                                  IF a = k THEN r.val ELSE acc.val[a]],
                              acc.log \o r.log, r.raised))

\* convert_object_info with the constructor called before the values of data
\* are converted.
convert_object_info_parent_first(d, path) ==
    LET r == objects_items(d.data, path, 1, Built(EmptyMap, <<>>, FALSE))
    IN IF r.raised THEN r
       ELSE LET c == Construct(d.class_, r.val)
            IN Built(c.val, <<Call(path, d.class_, r.val)>> \o r.log, c.raised)

\* convert_object_info(): the values of d.data are converted, then d.class_
\* is called with them.
convert_object_info(d, path) ==
    LET r == objects_items(d.data, path, 1, Built(EmptyMap, <<>>, FALSE))
    IN IF r.raised THEN r
       ELSE LET c == Construct(d.class_, r.val)
            IN Built(c.val, Append(r.log, Call(path, d.class_, r.val)), c.raised)

convert_to_objects(d, path) ==
    IF d.t \in {"list", "tuple"} THEN
        LET r == objects_list(Items(d), path, 1, Built(<<>>, <<>>, FALSE))
        IN Built(ListV(r.val), r.log, r.raised)
    ELSE IF d.t = "oi" THEN convert_object_info(d, path)
    ELSE IF d.t = "dict" THEN
        LET r == objects_items(d.kv, path, 1, Built(EmptyMap, <<>>, FALSE))
        IN Built(DictV(r.val), r.log, r.raised)
    ELSE Built(d, <<>>, FALSE)

---------------------------------------------------------------------------
(* convert_to_object_info.  A live object is either written in place, as  *)
(* ObjV, when one reference leads to it, or kept in a heap and referred to *)
(* by its address, as RefV, so that an attribute can hold the object it    *)
(* belongs to.  The outcome is the returned value and whether an exception *)
(* left the call; RecursionError is the one exception of the model.        *)
RefV(a) == [t |-> "ref", addr |-> a]
DecimalV(n) == [t |-> "decimal", d |-> n]
FloatV(n) == [t |-> "float", f |-> n]
Info(val, raised) == [val |-> val, raised |-> raised]

\* The depth of nested calls at which the interpreter raises RecursionError.
RecursionLimit == 6

IsObject(v) == v.t \in {"obj", "ref"}
ObjectOf(heap, v) == IF v.t = "ref" THEN heap[v.addr] ELSE v

\* get_conversion_map that reads no attribute.
get_conversion_map_empty(object_type) == EmptyMap

\* get_conversion_map(object_type): the registered rules of the type, else
\* every annotated parameter read from the attribute of the same name.
\* (No rule is registered for a parameter named "return".)
get_conversion_map(object_type) ==
    IF object_type \in DOMAIN CONVERSION_ATTR_TO_PARAM
    THEN Without(CONVERSION_ATTR_TO_PARAM[object_type], "return")
    ELSE [k \in DOMAIN get_annotations(object_type) |-> k]

\* float(object_) that returns its argument.
float_unchanged(object_) == object_

\* float(object_) of a decimal.Decimal
float(object_) == FloatV(object_.d)

\* The singleton check that skips nothing.
IsSingleton_never(heap, value) == FALSE

\* type_value.__name__ not in __builtins__ and
\* not len(signature(type_value).parameters)
\* (signature(type(None)) raises ValueError, which is suppressed.)
IsSingleton(heap, value) ==
    IsObject(value) /\ Len(InitParams(ObjectOf(heap, value).cls)) = 0

\* "value is object_" that never holds.
is_never(value, object_) == FALSE

\* value is object_: an object written in place is no other object.
is(value, object_) ==
    value.t = "ref" /\ object_.t = "ref" /\ value.addr = object_.addr

RECURSIVE convert_to_object_info_in(_, _, _)

\* _convert_object_info(object_, object_type, attrs): each parameter is read,
\* checked and converted under suppress(Exception).
decompose_object(heap, object_, object_type, attrs, depth) ==
    LET o == ObjectOf(heap, object_)
        read == {k \in DOMAIN attrs : attrs[k] \in DOMAIN o.attrs}
        value(k) == o.attrs[attrs[k]]
        conv(k) == IF is(value(k), object_) THEN Info(value(k), FALSE)
                   ELSE convert_to_object_info_in(heap, value(k), depth + 1)
        kept == {k \in read : ~IsSingleton(heap, value(k)) /\ ~conv(k).raised}
    IN Info(ObjectInfo(object_type, [k \in kept |-> conv(k).val], NoneV), FALSE)

convert_to_object_info_in(heap, object_, depth) ==
    IF depth > RecursionLimit THEN Info(NoneV, TRUE)
    ELSE IF object_.t \in {"int", "float", "str", "bool", "none", "enum"} THEN
        Info(object_, FALSE)
    ELSE IF object_.t = "decimal" THEN Info(float(object_), FALSE)
    ELSE IF object_.t \in {"list", "tuple"} THEN
        LET r == [j \in 1..Len(Items(object_)) |->
                     convert_to_object_info_in(heap, Items(object_)[j], depth + 1)]
        IN Info(ListV([j \in 1..Len(r) |-> r[j].val]), \E j \in 1..Len(r) : r[j].raised)
    ELSE IF object_.t = "dict" THEN
        LET r == [k \in DOMAIN object_.kv |->
                     convert_to_object_info_in(heap, object_.kv[k], depth + 1)]
        IN Info(ObjectInfo("dict", [k \in DOMAIN r |-> r[k].val], NoneV),
                \E k \in DOMAIN r : r[k].raised)
    ELSE LET object_type == ObjectOf(heap, object_).cls
         IN decompose_object(heap, object_, object_type,
                             get_conversion_map(object_type), depth)

\* convert_to_object_info(object_) of a value with no object in a heap.
convert_to_object_info(object_) == convert_to_object_info_in(<<>>, object_, 0).val

---------------------------------------------------------------------------
(* convert_objects_to_script.  The text is kept as its lines; the result   *)
(* is the text and the list of import statements.                          *)
Script(lines, imports) == [lines |-> lines, imports |-> imports]

\* str(object) of a value that is no ObjectInfo, sequence, enum or string.
Str(v) ==
    CASE v.t = "int" -> ToString(v.i)
      [] v.t = "bool" -> IF v.b THEN "True" ELSE "False"
      [] v.t = "float" -> ToString(v.f) \o ".0"
      [] OTHER -> "None"

\* object.replace("\\", "\\\\").replace("\n", "\\n").replace('"', '\\"'):
\* the strings of the model hold no backslash, newline or quote but this one.
Escaped(s) == IF s = "a\"b" THEN "a\\\"b" ELSE s

\* "    ".join(text.splitlines(True)) after a line break and four spaces:
\* every line is indented.
Indent(lines) == [j \in 1..Len(lines) |-> "    " \o lines[j]]

\* f"{prefix}{text},\n"
Entry(prefix, lines) ==
    [j \in 1..Len(lines) |->
        (IF j = 1 THEN prefix ELSE "") \o lines[j] \o (IF j = Len(lines) THEN "," ELSE "")]

RECURSIVE convert_objects_to_script(_)
RECURSIVE script_attrs(_, _, _)
RECURSIVE script_elements(_, _, _)

\* for attr, value in object.data.items()
script_attrs(data, j, acc) ==
    IF j > Len(KeyOrder) THEN acc
    ELSE LET attr == KeyOrder[j]
         IN IF attr \notin DOMAIN data THEN script_attrs(data, j + 1, acc)
            ELSE LET value == data[attr]
                     r == IF value.t \in {"oi", "list", "tuple", "enum"}
                          THEN convert_objects_to_script(value)
                          ELSE IF value.t = "str"
                          THEN Script(convert_objects_to_script(value).lines, <<>>)
                          ELSE Script(<<Str(value)>>, <<>>)
                 IN script_attrs(data, j + 1,
                        Script(acc.lines \o Entry(attr \o "=", r.lines),
                               acc.imports \o r.imports))

\* for element in object
script_elements(l, j, acc) ==
    IF j > Len(l) THEN acc
    ELSE LET r == convert_objects_to_script(l[j])
         IN script_elements(l, j + 1,
                Script(acc.lines \o Entry("", r.lines), acc.imports \o r.imports))

convert_objects_to_script(object) ==
    IF object.t = "oi" THEN
        LET r == script_attrs(object.data, 1, Script(<<>>, <<>>))
            import == "from " \o ClassModule(object.class_) \o " import "
                          \o ClassName(object.class_)
        IN Script(<<ClassName(object.class_) \o "(">>
                      \o (IF r.lines = <<>> THEN <<"    )">>
                          ELSE Indent(r.lines) \o <<")">>),
                  Append(r.imports, import))
    ELSE IF object.t \in {"list", "tuple"} THEN
        LET r == script_elements(Items(object), 1, Script(<<>>, <<>>))
        IN Script(<<"[">> \o Indent(r.lines) \o <<"]">>, r.imports)
    ELSE IF object.t = "enum" THEN
        Script(<<ClassName(object.e) \o "." \o object.m>>,
               <<"from " \o ClassModule(object.e) \o " import " \o ClassName(object.e)>>)
    ELSE IF object.t = "str" THEN Script(<<"\"" \o Escaped(object.s) \o "\"">>, <<>>)
    ELSE Script(<<Str(object)>>, <<>>)

---------------------------------------------------------------------------
(* The values the conversions are applied to *)
Prims == {IntV(n) : n \in 0..MaxInt} \cup {StrV("s"), NoneV, EnumV("Color", "R")}
Nicknames == {NoneV, StrV("nick")}

\* Every mapping from a subset of keys to the values vs.
Maps(keys, vs) == UNION {[K -> vs] : K \in SUBSET keys}

\* Every sequence over vs of length at most n.
SeqsUpTo(vs, n) == UNION {[1..m -> vs] : m \in 0..n}

\* The keys an ObjectInfo of class c is given in the universe: parameters
\* of the class (any key for dict, which takes any keyword), and a key of
\* a stored template that the class no longer has.
DataKeys(c) ==
    CASE c = "K1" -> {"a", "b", "ghost_field"}
      [] c = "K2" -> {"c", "u"}
      [] c = "dict" -> {"k"}
      [] OTHER -> {}

Leaf == ObjectInfo("K1", [a |-> IntV(0)], NoneV)
Lists == {ListV(l) : l \in SeqsUpTo({IntV(0), Leaf}, MaxListLen)}
Tuples == {TupleV(l) : l \in SeqsUpTo({IntV(0), EnumV("Color", "R")}, MaxListLen)}

ObjectInfosOf(c, keys, vs) == {ObjectInfo(c, d, n) : d \in Maps(keys, vs), n \in Nicknames}

ObjectInfos1 == UNION {ObjectInfosOf(c, DataKeys(c), Prims) : c \in {"K1", "dict", "Z"}}

Nested == Prims \cup Lists \cup Tuples
              \cup {Leaf, ObjectInfo("K1", [a |-> IntV(0)], StrV("nick")),
                    ObjectInfo("K1", EmptyMap, NoneV), ObjectInfo("Z", EmptyMap, NoneV),
                    ObjectInfo("K1", [ghost_field |-> IntV(0)], NoneV),
                    ObjectInfo("dict", [k |-> IntV(0)], NoneV),
                    ObjectInfo("dict", EmptyMap, NoneV),
                    ObjectInfo("K2", [c |-> Leaf], NoneV),
                    ObjectInfo("K1", [a |-> IntV(0), b |-> IntV(1)], NoneV)}

ObjectInfos2 == UNION {ObjectInfosOf(c, DataKeys(c) \ {"ghost_field"}, Nested) : c \in {"K1", "K2", "dict"}}

Universe == Prims \cup Lists \cup ObjectInfos1 \cup ObjectInfos2

---------------------------------------------------------------------------
(* The conversions as steps: an argument is drawn, then converted.         *)
Idle == [t |-> "idle"]

MemoIdle ==
    /\ memo = <<>>
    /\ lastArg = Idle
    /\ ret = Idle
    /\ calls = 0

FramesIdle ==
    /\ opened_frames = <<>>
    /\ listbox = Idle
    /\ closed = FALSE
    /\ dialog = FALSE
    /\ last = "none"

TypesIdle ==
    /\ clsParent = <<>>
    /\ clsAbstract = <<>>
    /\ clsWrapped = <<>>
    /\ tann = Idle
    /\ tres = Idle

\* The registries as they are when the package has been imported.
RegIdle ==
    /\ ALIASES = EmptyMap
    /\ ADDITIONAL_ANNOTATIONS = StockAnnotations
    /\ CONVERSION_ATTR_TO_PARAM = StockRules
    /\ clsdict = NoAttributes
    /\ regcall = Idle
    /\ cls_name_cache = EmptyMap

ScriptIdle == script = Idle

CastIdle == castArg = Idle /\ castRes = Idle

\* storage.py: class _NoClipBoard, the value GLOBAL.clipboard starts with.
NoClipBoard == [t |-> "_NoClipBoard"]

ClipIdle ==
    /\ clipboard = NoClipBoard
    /\ widgets = <<>>
    /\ clipcall = Idle

ExtendIdle ==
    /\ reg_pre_ext = <<>>
    /\ reg_post_ext = <<>>
    /\ extcall = Idle

TipIdle ==
    /\ schedule_id = 0
    /\ pending = {}
    /\ visible = FALSE
    /\ tipcall = Idle
    /\ timeout_ms = 0

LateIdle == ExtendIdle /\ TipIdle

ExtIdle == RegIdle /\ ScriptIdle /\ CastIdle /\ ClipIdle /\ LateIdle

ConvIdle ==
    /\ x = Idle
    /\ enc = Idle
    /\ dec = Idle
    /\ built = Idle
    /\ info = Idle

ConvInit ==
    /\ x \in Universe
    /\ pc = "start"
    /\ enc = Idle
    /\ dec = Idle
    /\ built = Idle
    /\ info = Idle
    /\ MemoIdle
    /\ TypesIdle
    /\ FramesIdle
    /\ ExtIdle

\* enc = convert_to_dict(x)
ToDict ==
    /\ pc = "start"
    /\ enc' = convert_to_dict(x)
    /\ pc' = "encoded"
    /\ UNCHANGED <<x, dec, built, info>>
    /\ UNCHANGED <<memoVars, typeVars, frameVars, extVars>>

\* dec = convert_from_dict(enc)
FromDict ==
    /\ pc = "encoded"
    /\ dec' = convert_from_dict(enc)
    /\ pc' = "decoded"
    /\ UNCHANGED <<x, enc, built, info>>
    /\ UNCHANGED <<memoVars, typeVars, frameVars, extVars>>

\* built = convert_to_objects(x)
ToObjects ==
    /\ pc = "start"
    /\ built' = convert_to_objects(x, <<>>)
    /\ pc' = "built"
    /\ UNCHANGED <<x, enc, dec, info>>
    /\ UNCHANGED <<memoVars, typeVars, frameVars, extVars>>

\* info = convert_to_object_info(built)
ToObjectInfo ==
    /\ pc = "built"
    /\ ~built.raised
    /\ info' = convert_to_object_info(built.val)
    /\ pc' = "decomposed"
    /\ UNCHANGED <<x, enc, dec, built>>
    /\ UNCHANGED <<memoVars, typeVars, frameVars, extVars>>

\* script = convert_objects_to_script(x)
ToScript ==
    /\ pc = "start"
    /\ script' = convert_objects_to_script(x)
    /\ pc' = "scripted"
    /\ UNCHANGED <<convData, memoVars, typeVars, frameVars, regVars, castVars, clipVars, lateVars>>

ConvNext == ToDict \/ FromDict \/ ToObjects \/ ToObjectInfo \/ ToScript

SpecConv == ConvInit /\ [][ConvNext]_vars

---------------------------------------------------------------------------
(* Memoization (the decorator cache_result on convert_to_dict).  The cache  *)
(* is a dict keyed on the arguments of the call, so a lookup finds an entry *)
(* whose key has the same hash as the argument and compares equal to it.    *)

\* The value as a number, for the values Python compares as numbers.
Num(v) == IF v.t = "int" THEN v.i ELSE IF v.b THEN 1 ELSE 0
IsNum(v) == v.t \in {"int", "bool"}

\* ObjectInfo.__hash__: hash(self.data) raises TypeError for a dict.
ObjectInfo_hash(o) == -1

\* a == b in Python.  ObjectInfo.__eq__ compares class_ and data only.
RECURSIVE PyEq(_, _)
PyEq(a, b) ==
    IF IsNum(a) /\ IsNum(b) THEN Num(a) = Num(b)
    ELSE IF a.t # b.t THEN FALSE
    ELSE CASE a.t = "oi" ->
                 /\ a.class_ = b.class_
                 /\ DOMAIN a.data = DOMAIN b.data
                 /\ \A k \in DOMAIN a.data : PyEq(a.data[k], b.data[k])
           [] a.t = "list" ->
                 /\ Len(a.l) = Len(b.l)
                 /\ \A j \in 1..Len(a.l) : PyEq(a.l[j], b.l[j])
           [] a.t = "tuple" ->
                 /\ Len(a.tu) = Len(b.tu)
                 /\ \A j \in 1..Len(a.tu) : PyEq(a.tu[j], b.tu[j])
           [] OTHER -> a = b

\* Whether hash(v) succeeds.
RECURSIVE Hashable(_)
Hashable(v) ==
    CASE v.t \in {"list", "dict"} -> FALSE
      [] v.t = "tuple" -> \A j \in 1..Len(v.tu) : Hashable(v.tu[j])
      [] OTHER -> TRUE

\* Whether the cache entry with key k answers a call with argument a.
KeyMatch(k, a) ==
    /\ (k.t = "oi" /\ a.t = "oi") => ObjectInfo_hash(k) = ObjectInfo_hash(a)
    /\ PyEq(k, a)

Hit(m, a) == {j \in 1..Len(m) : KeyMatch(m[j][1], a)}

\* The entry at j becomes the most recently used one.
Touch(m, j) == SubSeq(m, 1, j - 1) \o SubSeq(m, j + 1, Len(m)) \o <<m[j]>>

\* A new entry; the least recently used one goes once the capacity is exceeded.
Insert(m, a, r) ==
    LET n == Append(m, <<a, r>>)
    IN IF Len(n) > CacheMax THEN Tail(n) ELSE n

MemoResult(val, m) == [val |-> val, memo |-> m]

\* convert_to_dict as decorated: every call, nested ones included, goes
\* through the cache.
RECURSIVE memo_convert_to_dict(_, _)
RECURSIVE memo_to_dict_items(_, _, _, _)
RECURSIVE memo_to_dict_list(_, _, _, _)

\* {k: convert_to_dict(v) for k, v in d.data.items()}
memo_to_dict_items(m, data, j, acc) ==
    IF j > Len(KeyOrder) THEN MemoResult(acc, m)
    ELSE LET k == KeyOrder[j]
         IN IF k \notin DOMAIN data THEN memo_to_dict_items(m, data, j + 1, acc)
            ELSE LET r == memo_convert_to_dict(m, data[k])
                 IN memo_to_dict_items(r.memo, data, j + 1,
                        [a \in DOMAIN acc \cup {k} |-> IF a = k THEN r.val ELSE acc[a]])

\* [convert_to_dict(x) for x in d]
memo_to_dict_list(m, l, j, acc) ==
    IF j > Len(l) THEN MemoResult(acc, m)
    ELSE LET r == memo_convert_to_dict(m, l[j])
         IN memo_to_dict_list(r.memo, l, j + 1, Append(acc, r.val))

\* The body of convert_to_dict, its nested calls going through the cache.
memo_to_dict_body(m, d) ==
    IF d.t = "oi" THEN
        LET r == memo_to_dict_items(m, d.data, 1, EmptyMap)
        IN MemoResult(
               DictV([type |-> StrV(ClassModule(d.class_) \o "." \o ClassName(d.class_)),
                      data |-> DictV(r.val),
                      nickname |-> d.nickname]), r.memo)
    ELSE IF d.t = "list" THEN
        LET r == memo_to_dict_list(m, d.l, 1, <<>>)
        IN MemoResult(ListV(r.val), r.memo)
    ELSE MemoResult(convert_to_dict(d), m)

memo_convert_to_dict(m, d) ==
    IF ~Hashable(d) THEN memo_to_dict_body(m, d)
    ELSE IF Hit(m, d) # {} THEN
        LET j == CHOOSE h \in Hit(m, d) : TRUE
        IN MemoResult(m[j][2], Touch(m, j))
    ELSE LET r == memo_to_dict_body(m, d)
         IN MemoResult(r.val, Insert(r.memo, d, r.val))

\* The arguments of the memoized calls.
MemoArgs ==
    Prims \cup {BoolV(TRUE)} \cup Lists
        \cup ObjectInfosOf("K1", {"a"}, {IntV(0), IntV(1)})
        \cup ObjectInfosOf("K2", {"c"}, {Leaf, ObjectInfo("K1", [a |-> IntV(0)], StrV("nick"))})

MemoInit ==
    /\ MemoIdle
    /\ pc = "memo"
    /\ ConvIdle
    /\ TypesIdle
    /\ FramesIdle
    /\ ExtIdle

\* One call convert_to_dict(a) from outside.
CallToDict ==
    /\ calls < MaxCalls
    /\ \E a \in MemoArgs :
          LET r == memo_convert_to_dict(memo, a)
          IN /\ lastArg' = a
             /\ ret' = r.val
             /\ memo' = r.memo
    /\ calls' = calls + 1
    /\ UNCHANGED <<convVars, typeVars, frameVars, extVars>>

MemoNext == CallToDict

SpecMemo == MemoInit /\ [][MemoNext]_vars

\* C2: memoization never changes a result: a call of the memoized
\* convert_to_dict returns what the function itself returns for the argument;
\* in particular the encoding of an ObjectInfo carries that ObjectInfo's nickname.
C2_MemoizationTransparent ==
    calls > 0 => ret = convert_to_dict(lastArg)

\* C2 (its particular case): the memoized convert_to_dict of an ObjectInfo
\* returns an encoding that carries the nickname of that ObjectInfo, whatever
\* was converted before.
C2_MemoKeepsOwnNickname ==
    (calls > 0 /\ lastArg.t = "oi") => ret.kv["nickname"] = lastArg.nickname

---------------------------------------------------------------------------
(* Claims about convert_to_dict and convert_from_dict *)

\* The values of claim C1: primitives, enum members, lists and ObjectInfo
\* nodes as the decomposition and the frames make them (the keys of a node
\* of a class are annotated parameters of the class; a dict-backed node
\* has any keys).
RECURSIVE RoundTripDomain(_)
RoundTripDomain(v) ==
    CASE v.t = "oi" ->
            /\ v.class_ # "dict" => DOMAIN v.data \subseteq DOMAIN get_annotations(v.class_)
            /\ \A k \in DOMAIN v.data : RoundTripDomain(v.data[k])
      [] v.t = "list" -> \A j \in 1..Len(v.l) : RoundTripDomain(v.l[j])
      [] v.t = "tuple" -> FALSE
      [] OTHER -> TRUE

\* C1: for every value x built from primitives, ObjectInfo nodes (dict-backed
\* ones included), enum members and lists, convert_from_dict(convert_to_dict(x))
\* does not raise and equals x: same class_, same data at every depth, same
\* nickname.
C1_RoundTripLaw ==
    (pc = "decoded" /\ RoundTripDomain(x)) => (~dec.raised /\ dec.val = x)

Count(seq, e) == Cardinality({j \in 1..Len(seq) : seq[j] = e})
Range(seq) == {seq[j] : j \in 1..Len(seq)}

\* The warnings of the decodings of the kept values of an encoded data mapping.
RECURSIVE KeptWarnings(_, _, _)
KeptWarnings(type_, kv, j) ==
    IF j > Len(KeyOrder) THEN <<>>
    ELSE (IF KeyOrder[j] \in DOMAIN kv \cap DOMAIN get_annotations(type_)
          THEN convert_from_dict(kv[KeyOrder[j]]).warns ELSE <<>>)
         \o KeptWarnings(type_, kv, j + 1)

StaleKeys(o) == DOMAIN o.data \ DOMAIN get_annotations(o.class_)

\* C3: decoding an encoded ObjectInfo of class C does not raise; the data of
\* the result has exactly the keys of the encoded data that are in C's
\* annotations, each holding the decoding of the encoded value; and beside the
\* warnings of those decodings there is exactly one warning for every other
\* (stale) key.
C3_StaleFieldsDroppedWithWarning ==
    (pc = "decoded" /\ x.t = "oi") =>
        LET kv == enc.kv["data"].kv
            kept == KeptWarnings(x.class_, kv, 1)
            stale == {<<k, x.class_>> : k \in StaleKeys(x)}
        IN /\ ~dec.raised
           /\ dec.val.t = "oi"
           /\ dec.val.class_ = x.class_
           /\ DOMAIN dec.val.data = DOMAIN kv \cap DOMAIN get_annotations(x.class_)
           /\ \A k \in DOMAIN dec.val.data :
                  dec.val.data[k] = convert_from_dict(kv[k]).val
           /\ \A e \in Range(dec.warns) \cup stale :
                  Count(dec.warns, e) = Count(kept, e) + (IF e \in stale THEN 1 ELSE 0)

\* A template with a stale key and a kept key has been decoded.
C3_Witness ==
    /\ pc = "decoded"
    /\ x.t = "oi"
    /\ x.class_ = "K1"
    /\ "ghost_field" \in DOMAIN x.data
    /\ "a" \in DOMAIN x.data
    /\ "a" \in DOMAIN dec.val.data
    /\ dec.warns = <<(<<"ghost_field", "K1">>)>>

---------------------------------------------------------------------------
(* The type resolver, convert_types.  Classes of the host application are  *)
(* numbered in the order of their definition; each has at most one base    *)
(* class among the earlier ones.  An annotation is one of                  *)
(*   ClsT(c)          a class of the application                           *)
(*   BuiltinT(n)      a builtin class such as int                          *)
(*   StrT(s)          a str object, as in list['X'] and type['X']          *)
(*   FwdT(s)          typing.ForwardRef(s), as typing makes of Union['X']  *)
(*   UnionT(args)     typing.Union[args]                                   *)
(*   AliasT(o, args)  the builtin o subscripted: list[args], type[args]    *)
(* Subscripted subclasses of typing.Generic are not among them.            *)
ClsT(c) == [k |-> "cls", c |-> c]
BuiltinT(n) == [k |-> "builtin", n |-> n]
StrT(s) == [k |-> "str", s |-> s]
FwdT(s) == [k |-> "fwd", s |-> s]
UnionT(args) == [k |-> "union", args |-> args]
AliasT(o, args) == [k |-> "alias", origin |-> o, args |-> args]

ClassIds == 1..Len(clsParent)

\* The outcome of a call: the exception that left it, or the returned tuple.
Returns(types) == [raised |-> "none", types |-> types]
Raises(exc) == [raised |-> exc, types |-> <<>>]

\* input_type.__subclasses__(): the direct subclasses in order of definition.
RECURSIVE subclasses_from(_, _)
subclasses_from(c, j) ==
    IF j > Len(clsParent) THEN <<>>
    ELSE (IF clsParent[j] = c THEN <<j>> ELSE <<>>) \o subclasses_from(c, j + 1)

subclasses(c) == subclasses_from(c, 1)

\* No class has the attribute __wrapped__.
getattr_no_wrapped(c) == 0

\* getattr(type_, "__wrapped__", 0): the attribute of the class itself or
\* else of the nearest base class that has one.
RECURSIVE getattr_wrapped(_)
getattr_wrapped(c) ==
    IF c = 0 THEN 0
    ELSE IF clsWrapped[c] # 0 THEN clsWrapped[c]
    ELSE getattr_wrapped(clsParent[c])

\* inspect.isabstract(type_)
isabstract(type_) == type_.k = "cls" /\ clsAbstract[type_.c]

\* issubclass_noexcept(origin, Iterable) for the builtins that are subscripted.
IterableOrigins == {"list"}

\* input_type.__module__; a subscripted builtin answers with its origin's.
Module(type_) ==
    CASE type_.k = "cls" -> "app"
      [] type_.k = "fwd" -> "typing"
      [] OTHER -> "builtins"

In(e, seq) == \E j \in 1..Len(seq) : seq[j] = e

\* r.remove(e): the first occurrence goes.
Remove(r, e) ==
    LET j == CHOOSE i \in 1..Len(r) : r[i] = e /\ \A h \in 1..(i - 1) : r[h] # e
    IN SubSeq(r, 1, j - 1) \o SubSeq(r, j + 1, Len(r))

\* tuple({a: 0 for a in r}): the first occurrence of each element, in order.
RECURSIVE Dedupe(_)
Dedupe(r) ==
    IF r = <<>> THEN <<>>
    ELSE LET init == Dedupe(SubSeq(r, 1, Len(r) - 1))
         IN IF In(r[Len(r)], init) THEN init ELSE Append(init, r[Len(r)])

\* chain.from_iterable(groups)
RECURSIVE Flatten(_)
Flatten(groups) == IF groups = <<>> THEN <<>> ELSE Head(groups) \o Flatten(Tail(groups))

\* The loop of remove_classes over the list it was given, r being the copy
\* the removals are made in.  r.remove(type_) of an abstract type_ that is
\* no longer in r raises ValueError.
RECURSIVE remove_classes_loop(_, _, _)
remove_classes_loop(types, j, r) ==
    IF j > Len(types) THEN Returns(Dedupe(r))
    ELSE LET type_ == types[j]
             w == IF type_.k = "cls" THEN getattr_wrapped(type_.c) ELSE 0
             r1 == IF w # 0 /\ In(ClsT(w), r) THEN Remove(r, ClsT(w)) ELSE r
         IN IF isabstract(type_) THEN
                IF In(type_, r1)
                THEN remove_classes_loop(types, j + 1, Remove(r1, type_))
                ELSE Raises("ValueError")
            ELSE remove_classes_loop(types, j + 1, r1)

remove_classes(types) == remove_classes_loop(types, 1, types)

RECURSIVE convert_types(_)
RECURSIVE convert_arg_groups(_, _, _)
RECURSIVE extend_subtypes(_, _, _)
RECURSIVE subscript_origins(_, _, _, _)

\* for arg_group in get_args(input_type):
\*     new_types.append(remove_classes(list(convert_types(arg_group))))
convert_arg_groups(args, j, new_types) ==
    IF j > Len(args) THEN Returns(new_types)
    ELSE LET c == convert_types(args[j])
         IN IF c.raised # "none" THEN c
            ELSE LET r == remove_classes(c.types)
                 IN IF r.raised # "none" THEN r
                    ELSE convert_arg_groups(args, j + 1, Append(new_types, r.types))

\* for st in input_type.__subclasses__(): subtypes.extend(convert_types(st))
extend_subtypes(subs, j, subtypes) ==
    IF j > Len(subs) THEN Returns(subtypes)
    ELSE LET c == convert_types(ClsT(subs[j]))
         IN IF c.raised # "none" THEN c
            ELSE extend_subtypes(subs, j + 1, subtypes \o c.types)

\* for origin in convert_types(origin): the iterable origin is subscripted
\* with the flattened groups, any other origin is kept as it is.
subscript_origins(origins, j, new_types, new_origins) ==
    IF j > Len(origins) THEN new_origins
    ELSE LET origin == origins[j]
             new == IF origin.k = "builtin" /\ origin.n \in IterableOrigins
                    THEN IF Len(new_types) # 0
                         THEN AliasT(origin.n, Flatten(new_types)) ELSE origin
                    ELSE origin
         IN subscript_origins(origins, j + 1, new_types, Append(new_origins, new))

convert_types(input_type) ==
    IF input_type.k = "str" THEN Raises("TypeError")
    ELSE IF input_type.k = "union"
            \/ (input_type.k = "alias" /\ input_type.origin \in IterableOrigins) THEN
        LET g == convert_arg_groups(input_type.args, 1, <<>>)
        IN IF g.raised # "none" THEN g
           ELSE IF input_type.k = "union" THEN Returns(Flatten(g.types))
           ELSE LET o == convert_types(BuiltinT(input_type.origin))
                IN IF o.raised # "none" THEN o
                   ELSE remove_classes(subscript_origins(o.types, 1, g.types, <<>>))
    ELSE IF Module(input_type) = "builtins" THEN Returns(<<input_type>>)
    ELSE LET s == IF input_type.k = "cls"
                  THEN extend_subtypes(subclasses(input_type.c), 1, <<>>)
                  ELSE Returns(<<>>)
         IN IF s.raised # "none" THEN s
            ELSE remove_classes(<<input_type>> \o s.types)

\* The annotations convert_types is called with, over the classes defined.
\* typing.Union turns a string member into a ForwardRef and drops a repeated
\* member; a subscripted builtin keeps its parameter as it was written.
Atoms == {ClsT(c) : c \in ClassIds} \cup {BuiltinT("int")}
Subscripted ==
    {AliasT(o, <<a>>) : o \in {"list", "type"}, a \in {ClsT(c) : c \in ClassIds} \cup {StrT("X")}}
UnionMembers == Atoms \cup {FwdT("X"), AliasT("list", <<StrT("X")>>), AliasT("type", <<StrT("X")>>)}
Unions == {UnionT(<<a, b>>) : a \in UnionMembers, b \in UnionMembers} \ {UnionT(<<a, a>>) : a \in UnionMembers}
Annotations == Atoms \cup {StrT("X")} \cup Subscripted \cup Unions

TypesInit ==
    /\ pc = "classes"
    /\ clsParent = <<>>
    /\ clsAbstract = <<>>
    /\ clsWrapped = <<>>
    /\ tann = Idle
    /\ tres = Idle
    /\ ConvIdle
    /\ MemoIdle
    /\ FramesIdle
    /\ ExtIdle

\* class New(Base) or class New: in the host application
DefineClass ==
    /\ pc = "classes"
    /\ Len(clsParent) < MaxClasses
    /\ \E base \in 0..Len(clsParent), abstract \in BOOLEAN :
          /\ clsParent' = Append(clsParent, base)
          /\ clsAbstract' = Append(clsAbstract, abstract)
    /\ clsWrapped' = Append(clsWrapped, 0)
    /\ UNCHANGED <<tann, tres, convVars, memoVars, frameVars, extVars>>

\* W.__wrapped__ = C, as functools.wraps and class decorators set it
SetWrapped ==
    /\ pc = "classes"
    /\ Cardinality({c \in ClassIds : clsWrapped[c] # 0}) < MaxWrappers
    /\ \E W \in ClassIds, C \in ClassIds :
          /\ W # C
          /\ clsWrapped[W] = 0
          /\ clsWrapped' = [clsWrapped EXCEPT ![W] = C]
    /\ UNCHANGED <<clsParent, clsAbstract, tann, tres, convVars, memoVars, frameVars, extVars>>

\* tres = convert_types(annotation)
Resolve ==
    /\ pc = "classes"
    /\ \E annotation \in Annotations :
          /\ tann' = annotation
          /\ tres' = convert_types(annotation)
    /\ pc' = "resolved"
    /\ UNCHANGED <<clsParent, clsAbstract, clsWrapped, convData, memoVars, frameVars, extVars>>

TypesNext == DefineClass \/ SetWrapped \/ Resolve

SpecTypes == TypesInit /\ [][TypesNext]_vars

---------------------------------------------------------------------------
(* Claims about convert_types *)

\* The classes of the subclass expansion of c: c and its direct and
\* indirect subclasses.
RECURSIVE IsSubclass(_, _)
IsSubclass(d, c) == d # 0 /\ (d = c \/ IsSubclass(clsParent[d], c))
Expansion(c) == {d \in ClassIds : IsSubclass(d, c)}

ResolvedClass == pc = "resolved" /\ tann.k = "cls"

\* C4 (its second half): for a concrete class C with an abstract class in
\* its subclass expansion, convert_types(C) returns normally.
C4_ReturnsNormallyWithAbstract ==
    (/\ ResolvedClass
     /\ ~clsAbstract[tann.c]
     /\ \E d \in Expansion(tann.c) : clsAbstract[d])
        => tres.raised = "none"

\* C4 (its first half): for a concrete class C, what convert_types(C) returns
\* contains C and every concrete class of its subclass expansion, and no
\* abstract class.
C4_ContainsConcreteClasses ==
    (ResolvedClass /\ ~clsAbstract[tann.c] /\ tres.raised = "none") =>
        /\ \A d \in Expansion(tann.c) : ~clsAbstract[d] => In(ClsT(d), tres.types)
        /\ \A j \in 1..Len(tres.types) : ~isabstract(tres.types[j])

IsWrappedIn(W, root) == \E V \in Expansion(root) : getattr_wrapped(V) = W

RECURSIVE MemberTypes(_, _)
MemberTypes(args, j) ==
    IF j > Len(args) THEN <<>>
    ELSE convert_types(args[j]).types \o MemberTypes(args, j + 1)

\* C6: for a union, convert_types returns the type-sets of the members
\* flattened in member order, no type occurring more than once.
C6_UnionFlattenedWithoutDuplicates ==
    (pc = "resolved" /\ tann.k = "union" /\ tres.raised = "none") =>
        /\ tres.types = Dedupe(MemberTypes(tann.args, 1))
        /\ \A i \in 1..Len(tres.types), j \in 1..Len(tres.types) :
               tres.types[i] = tres.types[j] => i = j

\* Whether an annotation is or contains a forward reference written as a string.
RECURSIVE HasForwardReference(_)
HasForwardReference(a) ==
    CASE a.k \in {"str", "fwd"} -> TRUE
      [] a.k \in {"union", "alias"} -> \E j \in 1..Len(a.args) : HasForwardReference(a.args[j])
      [] OTHER -> FALSE

\* C7: convert_types fails for every annotation that is or contains, at any
\* depth of unions and generic parameters, a forward reference given as a
\* string; it never returns a type-set for it.
C7_ForwardReferenceFails ==
    (pc = "resolved" /\ HasForwardReference(tann)) => tres.raised # "none"

---------------------------------------------------------------------------
(* Claims about convert_to_objects and convert_to_object_info *)

\* The places of the ObjectInfo nodes of v, path leading to v.
RECURSIVE OiPaths(_, _)
OiPaths(v, path) ==
    CASE v.t = "oi" ->
            {path} \cup UNION {OiPaths(v.data[k], Append(path, k)) : k \in DOMAIN v.data}
      [] v.t \in {"list", "tuple"} ->
            UNION {OiPaths(Items(v)[j], Append(path, IndexNames[j])) : j \in 1..Len(Items(v))}
      [] v.t = "dict" ->
            UNION {OiPaths(v.kv[k], Append(path, k)) : k \in DOMAIN v.kv}
      [] OTHER -> {}

\* The value at a place of v.
RECURSIVE NodeAt(_, _)
NodeAt(v, path) ==
    IF path = <<>> THEN v
    ELSE IF v.t = "oi" THEN NodeAt(v.data[Head(path)], Tail(path))
    ELSE IF v.t = "dict" THEN NodeAt(v.kv[Head(path)], Tail(path))
    ELSE NodeAt(Items(v)[CHOOSE j \in 1..Len(IndexNames) : IndexNames[j] = Head(path)],
                Tail(path))

\* Whether the place q lies inside the node at the place p.
Inside(q, p) == Len(p) < Len(q) /\ SubSeq(q, 1, Len(p)) = p

IsContainer(v) == v.t \in {"oi", "list", "tuple", "dict"}

\* C8: the constructor of an ObjectInfo node is called only after the
\* constructors of all the nodes nested in its data have been called and have
\* returned, once per occurrence of the node, with the materialized values of
\* its data as keyword arguments; a value that is no ObjectInfo, sequence or
\* mapping is passed through unchanged.
C8_ChildrenBeforeParent ==
    pc \in {"built", "decomposed"} =>
        LET log == built.log
            nodes == OiPaths(x, <<>>)
        IN /\ \A i \in 1..Len(log) :
                  LET node == NodeAt(x, log[i].path)
                  IN /\ log[i].path \in nodes
                     /\ log[i].class_ = node.class_
                     /\ \A q \in nodes : Inside(q, log[i].path) =>
                            \E j \in 1..(i - 1) : log[j].path = q
                     /\ \A j \in 1..Len(log) : log[j].path = log[i].path => j = i
                     /\ DOMAIN log[i].kwargs = DOMAIN node.data
                     /\ \A k \in DOMAIN node.data :
                            IF IsContainer(node.data[k])
                            THEN log[i].kwargs[k] =
                                     convert_to_objects(node.data[k], <<>>).val
                            ELSE log[i].kwargs[k] = node.data[k]
           /\ ~built.raised => \A q \in nodes : \E i \in 1..Len(log) : log[i].path = q
           /\ ~IsContainer(x) => (~built.raised /\ built.val = x /\ log = <<>>)

\* A node that holds a node that holds a node has been materialized, the
\* three constructors called from the innermost outwards.
C8_Witness ==
    /\ pc = "built"
    /\ ~built.raised
    /\ Len(built.log) = 3
    /\ Len(built.log[1].path) = 2
    /\ Len(built.log[2].path) = 1
    /\ built.log[3].path = <<>>
    /\ built.log[3].class_ = "K2"
    /\ "c" \in DOMAIN built.log[3].kwargs
    /\ built.log[3].kwargs["c"].t = "obj"

RECURSIVE FullyAnnotated(_)
FullyAnnotated(v) ==
    CASE v.t = "oi" ->
            /\ v.class_ # "dict" =>
                   /\ DOMAIN v.data = DOMAIN get_annotations(v.class_)
                   /\ Len(InitParams(v.class_)) # 0
            /\ \A k \in DOMAIN v.data : FullyAnnotated(v.data[k])
      [] v.t = "list" -> \A j \in 1..Len(v.l) : FullyAnnotated(v.l[j])
      [] v.t = "tuple" -> FALSE
      [] OTHER -> TRUE

---------------------------------------------------------------------------
(* The object edit window, its struct frames and the storage widgets they  *)
(* return into.  Indexes are Python's: the first item has index 0.  The    *)
(* first frame of the window returns into a ListBoxObjects of the host     *)
(* application; a frame opened from a field of the displayed frame returns *)
(* into the ComboBoxObjects of that field.                                 *)
At(seq, ind) == seq[ind + 1]
InsertAt(seq, ind, el) == SubSeq(seq, 1, ind) \o <<el>> \o SubSeq(seq, ind + 1, Len(seq))
DeleteAt(seq, ind) == SubSeq(seq, 1, ind) \o SubSeq(seq, ind + 2, Len(seq))

\* ListBoxObjects: _original_items and the indexes Tk holds selected.
ListBox(items, sel) == [items |-> items, sel |-> sel]
ListBox_current(w) ==
    IF w.sel = {} THEN -1 ELSE CHOOSE i \in w.sel : \A j \in w.sel : i <= j
ListBox_count(w) == Len(w.items)
ListBox_insert(w, index, element) ==
    ListBox(InsertAt(w.items, index, element),
            {IF i >= index THEN i + 1 ELSE i : i \in w.sel})
ListBox_delete(w, index) ==
    ListBox(DeleteAt(w.items, index),
            {IF i > index THEN i - 1 ELSE i : i \in w.sel \ {index}})
ListBox_selection_set(w, index) == ListBox(w.items, w.sel \cup {index})

\* ComboBoxObjects: _original_items, the index Tk holds current (-1: none)
\* and the text typed into the entry when there is none.
ComboBox(items, cur, text) == [items |-> items, cur |-> cur, text |-> text]
ComboBox_get(w) == IF w.cur >= 0 THEN At(w.items, w.cur) ELSE StrV(w.text)
ComboBox_count(w) == Len(w.items)
ComboBox_insert(w, index, element) == [w EXCEPT !.items = InsertAt(@, index, element)]
ComboBox_delete(w, index) == [w EXCEPT !.items = DeleteAt(@, index)]
ComboBox_current(w, index) == [w EXCEPT !.cur = index, !.text = ""]

\* convert_types of the annotation of a field: K1.a and K1.b are int, K2.c is K1.
FieldTypes(class_, attr) ==
    CASE class_ = "K1" -> <<"int">>
      [] class_ = "K2" /\ attr = "c" -> <<"K1">>
      [] OTHER -> <<>>

\* The texts a user types into a field; int(text) succeeds on "1" only.
Texts == {"", "1", "x"}

\* type_.__module__ of a type handed to cast_type
TypeModule(type_) ==
    CASE type_ \in {"int", "str", "float", "bool", "NoneType", "dict"} -> "builtins"
      [] type_ = "Decimal" -> "decimal"
      [] OTHER -> "app"

\* json.loads(v)
json_loads(text) ==
    CASE text = "1" -> Info(IntV(1), FALSE)
      [] text = "5" -> Info(IntV(5), FALSE)
      [] text = "{}" -> Info(DictV(EmptyMap), FALSE)
      [] OTHER -> Info(NoneV, TRUE)

\* type_(value) of a string: int, float and Decimal parse a number, str and
\* bool take any string, dict takes the empty one, NoneType takes no
\* argument, a class of the application binds its first parameter.
call_type(type_, text) ==
    CASE type_ = "int" ->
            IF text = "1" THEN Info(IntV(1), FALSE)
            ELSE IF text = "5" THEN Info(IntV(5), FALSE) ELSE Info(NoneV, TRUE)
      [] type_ = "float" ->
            IF text = "1" THEN Info(FloatV(1), FALSE)
            ELSE IF text = "5" THEN Info(FloatV(5), FALSE) ELSE Info(NoneV, TRUE)
      [] type_ = "Decimal" ->
            IF text = "1" THEN Info(DecimalV(1), FALSE)
            ELSE IF text = "5" THEN Info(DecimalV(5), FALSE) ELSE Info(NoneV, TRUE)
      [] type_ = "str" -> Info(StrV(text), FALSE)
      [] type_ = "bool" -> Info(BoolV(text # ""), FALSE)
      [] type_ = "dict" ->
            IF text = "" THEN Info(DictV(EmptyMap), FALSE) ELSE Info(NoneV, TRUE)
      [] type_ \in UserClasses ->
            LET c == CallWithValue(type_, StrV(text)) IN Info(c.val, c.raised)
      [] OTHER -> Info(NoneV, TRUE)

\* CAST_FUNTIONS.get(type_), or type_ itself, applied to the value
cast_function(type_, text) ==
    IF type_ = "dict" THEN
        LET j == json_loads(text)
        IN IF j.raised THEN j ELSE Info(convert_to_object_info(j.val), FALSE)
    ELSE call_type(type_, text)

\* The types of the builtins module whose cast does not raise.
Castable(text, types) ==
    {j \in 1..Len(types) :
        TypeModule(types[j]) = "builtins" /\ ~cast_function(types[j], text).raised}

\* cast_type that lets the last type that converts the text win.
cast_type_last_wins(text, types) ==
    LET ok == Castable(text, types)
    IN IF ok = {} THEN Info(NoneV, TRUE)
       ELSE cast_function(types[CHOOSE j \in ok : \A i \in ok : i <= j], text)

\* cast_type(value, types): the first type of the builtins module whose cast
\* does not raise gives the value; TypeError when there is none.
cast_type(text, types) ==
    LET ok == Castable(text, types)
    IN IF ok = {} THEN Info(NoneV, TRUE)
       ELSE cast_function(types[CHOOSE j \in ok : \A i \in ok : j <= i], text)

\* get_gui_data(): the values of the fields that are not empty.
get_gui_data(fields) ==
    LET filled == {a \in DOMAIN fields : ComboBox_get(fields[a]) # StrV("")}
    IN [a \in filled |-> ComboBox_get(fields[a])]

\* widget["values"].index(val)
IndexOf(items, val) ==
    (CHOOSE j \in 1..Len(items) :
        PyEq(items[j], val) /\ \A h \in 1..(j - 1) : ~PyEq(items[h], val)) - 1

\* load(old_data): a value of old_data is added to its field unless it is
\* among the values of the field, and made the current one.
load(fields, old_data) ==
    [a \in DOMAIN fields |->
        IF a \in DOMAIN old_data.data THEN
            LET val == old_data.data[a]
                w == IF \E j \in 1..Len(fields[a].items) : PyEq(fields[a].items[j], val)
                     THEN fields[a]
                     ELSE ComboBox_insert(fields[a], ComboBox_count(fields[a]), val)
            IN ComboBox_current(w, IndexOf(w.items, val))
        ELSE fields[a]]

\* NewObjectFrameStruct.load(old_data) on a frame: the fields are loaded, the
\* nickname is inserted in front of the text of its entry, and old_data
\* becomes the old_gui_data of the frame.
StructFrame_load(frame, old_data) ==
    [frame EXCEPT !.fields = load(@, old_data),
                  !.nick = IF old_data.nickname \notin {NoneV, StrV("")}
                           THEN old_data.nickname.s \o @ ELSE @,
                  !.old_gui_data = old_data]

\* A struct frame with one empty field for each key of annotations, then
\* load(old_data) when there is old data, then remember_gui_data().  kind
\* tells the frame class, old_data keeps the argument of the constructor,
\* packed tells whether the window displays the frame.
StructFrame(class_, retAttr, old_data, editing_index, check_parameters, allow_save, keys) ==
    LET created == [kind |-> "struct",
                    class_ |-> class_,
                    retAttr |-> retAttr,
                    old_data |-> old_data,
                    old_gui_data |-> old_data,
                    editing_index |-> editing_index,
                    check_parameters |-> check_parameters,
                    allow_save |-> allow_save,
                    packed |-> FALSE,
                    fields |-> [a \in keys |-> ComboBox(<<>>, -1, "")],
                    nick |-> "",
                    original |-> EmptyMap]
        loaded == IF old_data = NoneV THEN created ELSE StructFrame_load(created, old_data)
    IN [loaded EXCEPT !.original = get_gui_data(loaded.fields)]

\* NewObjectFrameStruct(class_, return_widget, old_data=..., check_parameters=...):
\* one empty field for each annotated parameter, then load(old_data) when
\* editing, then remember_gui_data().  retAttr names the field of the frame
\* below whose ComboBoxObjects is the return widget ("" for the ListBoxObjects);
\* editing_index is return_widget.current() at that time.
NewObjectFrameStruct(class_, retAttr, old_data, editing_index, check_parameters) ==
    StructFrame(class_, retAttr, old_data, editing_index, check_parameters, TRUE,
                DOMAIN get_annotations(class_))

\* The keys of the annotations a read-only struct frame is made with: those
\* of old_data.data, or of get_annotations(class_) when it has none.
ViewAnnotations(class_, old_data) ==
    IF DOMAIN old_data.data # {} THEN DOMAIN old_data.data ELSE DOMAIN get_annotations(class_)

\* NewObjectFrameStructView(class_, return_widget, old_data=..., allow_save=False)
NewObjectFrameStructView(class_, retAttr, old_data, editing_index, check_parameters) ==
    StructFrame(class_, retAttr, old_data, editing_index, check_parameters, FALSE,
                ViewAnnotations(class_, old_data))

\* The types a field of a frame converts a typed text to: self._map[key][1]
FrameTypes(frame, attr) ==
    IF frame.allow_save THEN FieldTypes(frame.class_, attr)
    ELSE IF attr \in DOMAIN frame.old_data.data
         THEN LET v == frame.old_data.data[attr]
              IN <<IF v.t = "oi" THEN v.class_ ELSE v.t>>
         ELSE FieldTypes(frame.class_, attr)

\* str(value) of an int, as Spinbox.set(value) shows it
str_of(value) == IF value.i = 1 THEN "1" ELSE IF value.i = 5 THEN "5" ELSE "0"

\* NewObjectFrameNumber(class_, return_widget, old_data=..., allow_save=...):
\* a Spinbox that shows old_data when editing, then remember_gui_data(),
\* which keeps get_gui_data(), that is return_widget.get(), here shown.
\* loaded keeps the text the Spinbox had when the frame was opened.
NewObjectFrameNumber(class_, retAttr, old_data, editing_index, allow_save, shown) ==
    LET text == IF old_data = NoneV THEN "" ELSE str_of(old_data)
    IN [kind |-> "number",
        class_ |-> class_,
        retAttr |-> retAttr,
        old_data |-> old_data,
        old_gui_data |-> old_data,
        editing_index |-> editing_index,
        check_parameters |-> TRUE,
        allow_save |-> allow_save,
        packed |-> FALSE,
        storage |-> text,
        loaded |-> text,
        original |-> shown]

\* NewObjectFrameNumber.to_object()
NumberFrame_to_object(frame) == cast_type(frame.storage, <<frame.class_>>)

RECURSIVE to_object_items(_, _, _)
RECURSIVE to_object_items_keep_empty(_, _, _)

\* The loop of to_object with the empty text of a field kept as its value.
to_object_items_keep_empty(frame, j, acc) ==
    IF acc.raised \/ j > Len(KeyOrder) THEN acc
    ELSE LET attr == KeyOrder[j]
         IN IF attr \notin DOMAIN frame.fields
            THEN to_object_items_keep_empty(frame, j + 1, acc)
            ELSE LET value == ComboBox_get(frame.fields[attr])
                     cast == IF value.t = "str" /\ value.s # ""
                             THEN cast_type(value.s, FieldTypes(frame.class_, attr))
                             ELSE [val |-> value, raised |-> FALSE]
                 IN to_object_items_keep_empty(frame, j + 1,
                        [val |-> [a \in DOMAIN acc.val \cup {attr} |->
                                     IF a = attr THEN cast.val ELSE acc.val[a]],
                         raised |-> cast.raised])

\* The loop of to_object over the fields: an empty field is left out, a typed
\* text is cast to the types of the field, a selected value is taken as it is.
to_object_items(frame, j, acc) ==
    IF acc.raised \/ j > Len(KeyOrder) THEN acc
    ELSE LET attr == KeyOrder[j]
         IN IF attr \notin DOMAIN frame.fields THEN to_object_items(frame, j + 1, acc)
            ELSE LET value == ComboBox_get(frame.fields[attr])
                     cast == IF value.t = "str"
                             THEN cast_type(value.s, FieldTypes(frame.class_, attr))
                             ELSE [val |-> value, raised |-> FALSE]
                 IN IF value = StrV("") THEN to_object_items(frame, j + 1, acc)
                    ELSE to_object_items(frame, j + 1,
                             [val |-> [a \in DOMAIN acc.val \cup {attr} |->
                                          IF a = attr THEN cast.val ELSE acc.val[a]],
                              raised |-> cast.raised])

\* to_object(ignore_checks=...): the ObjectInfo of the fields; unless the
\* checks are ignored or check_parameters is off, the objects are created
\* (_convert_to_objects_cached) and an exception of theirs leaves to_object.
to_object_checked(frame, ignore_checks) ==
    LET m == to_object_items(frame, 1, [val |-> EmptyMap, raised |-> FALSE])
        object_ == ObjectInfo(frame.class_, m.val,
                              IF frame.nick = "" THEN NoneV ELSE StrV(frame.nick))
    IN IF m.raised THEN [val |-> NoneV, raised |-> TRUE]
       ELSE IF ~ignore_checks /\ frame.check_parameters
                /\ convert_to_objects(object_, <<>>).raised
       THEN [val |-> NoneV, raised |-> TRUE]
       ELSE [val |-> object_, raised |-> FALSE]

\* to_object(ignore_checks=True)
to_object_unchecked(frame) == to_object_checked(frame, TRUE)

\* to_object()
to_object(frame) == to_object_checked(frame, FALSE)

\* _update_ret_widget(new) on the ListBoxObjects
update_listbox(w, frame, new) ==
    LET editing == frame.old_gui_data # NoneV /\ frame.editing_index # -1
        ind == IF editing THEN frame.editing_index ELSE ListBox_count(w)
        w1 == IF editing THEN ListBox_delete(w, ind) ELSE w
    IN ListBox_selection_set(ListBox_insert(w1, ind, new), ind)

\* _update_ret_widget(new) on a ComboBoxObjects
update_combobox(w, frame, new) ==
    LET editing == frame.old_gui_data # NoneV /\ frame.editing_index # -1
        ind == IF editing THEN frame.editing_index ELSE ComboBox_count(w)
        w1 == IF editing THEN ComboBox_delete(w, ind) ELSE w
    IN ComboBox_current(ComboBox_insert(w1, ind, new), ind)

\* The displayed frame: opened_frames[-1]
Top == opened_frames[Len(opened_frames)]

\* a == b for two dicts
DictEq(a, b) == DOMAIN a = DOMAIN b /\ \A k \in DOMAIN a : PyEq(a[k], b[k])

\* NewObjectFrameNumber.get_gui_data() of the displayed frame: the value of
\* its return widget, the ComboBoxObjects of the frame below.
NumberFrame_get_gui_data(frame) ==
    ComboBox_get(opened_frames[Len(opened_frames) - 1].fields[frame.retAttr])

\* The property modified of the displayed frame
modified(frame) ==
    IF frame.kind = "number" THEN ~PyEq(NumberFrame_get_gui_data(frame), frame.original)
    ELSE ~DictEq(get_gui_data(frame.fields), frame.original)

notFrames == <<convVars, memoVars, typeVars, extVars>>

FramesInit ==
    /\ pc = "frames"
    /\ opened_frames = <<>>
    /\ listbox = ListBox(<<>>, {})
    /\ closed = FALSE
    /\ dialog = FALSE
    /\ last = "none"
    /\ ConvIdle
    /\ MemoIdle
    /\ TypesIdle
    /\ ExtIdle

\* frame.pack() / frame.pack_forget()
pack(frame) == [frame EXCEPT !.packed = TRUE]
pack_forget(frame) == [frame EXCEPT !.packed = FALSE]

\* _create_and_add_frame: the frame is appended, the frame that was
\* displayed is hidden and the new one displayed.
create_and_add_frame(frame) ==
    LET n == Len(opened_frames)
    IN Append([i \in 1..n |-> IF i = n THEN pack_forget(opened_frames[i])
                              ELSE opened_frames[i]],
              pack(frame))

\* clean_object_edit_frame() on a stack of frames: the last one is popped
\* and the one beneath displayed.
pop_frame_keep_hidden(frames) == SubSeq(frames, 1, Len(frames) - 1)
pop_frame(frames) ==
    LET n == Len(frames) - 1
    IN [i \in 1..n |-> IF i = n THEN pack(frames[i]) ELSE frames[i]]

\* _cleanup(): clean_object_edit_frame() pops the displayed frame and
\* destroys the window when no frame is left.
cleanup ==
    /\ opened_frames' = pop_frame(opened_frames)
    /\ closed' = (Len(opened_frames) = 1)
    /\ UNCHANGED listbox

\* save() without the test of allow_save.
save_unguarded ==
    LET frame == Top
        n == Len(opened_frames)
        r == IF frame.kind = "number" THEN NumberFrame_to_object(frame)
             ELSE to_object(frame)
    IN IF r.raised THEN
           /\ dialog' = TRUE
           /\ UNCHANGED <<opened_frames, listbox, closed>>
       ELSE
           /\ dialog' = FALSE
           /\ IF n = 1 THEN
                  /\ listbox' = update_listbox(listbox, frame, r.val)
                  /\ opened_frames' = <<>>
                  /\ closed' = TRUE
              ELSE
                  /\ opened_frames' =
                         pop_frame([opened_frames EXCEPT
                             ![n - 1].fields[frame.retAttr] =
                                 update_combobox(@, frame, r.val)])
                  /\ UNCHANGED <<listbox, closed>>

\* save() of the displayed frame: to_object(), _update_ret_widget(),
\* _cleanup(); any exception ends in Messagebox.show_error.
save ==
    LET frame == Top
        n == Len(opened_frames)
        r == IF ~frame.allow_save THEN [val |-> NoneV, raised |-> TRUE]
             ELSE IF frame.kind = "number" THEN NumberFrame_to_object(frame)
             ELSE to_object(frame)
    IN IF r.raised THEN
           /\ dialog' = TRUE
           /\ UNCHANGED <<opened_frames, listbox, closed>>
       ELSE
           /\ dialog' = FALSE
           /\ IF n = 1 THEN
                  /\ listbox' = update_listbox(listbox, frame, r.val)
                  /\ opened_frames' = <<>>
                  /\ closed' = TRUE
              ELSE
                  /\ opened_frames' =
                         pop_frame([opened_frames EXCEPT
                             ![n - 1].fields[frame.retAttr] =
                                 update_combobox(@, frame, r.val)])
                  /\ UNCHANGED <<listbox, closed>>

\* The nicknames the entry of a frame gets to hold.
EntryNicknames == {"", "n", "nn"}

\* The templates the user has on disk: ObjectInfo objects of K1.
Templates == {ObjectInfo("K1", [a |-> IntV(1)], StrV("n"))}

\* open_object_edit_frame(class_, listbox, old_data, check_parameters, allow_save)
\* on a new window: the frame is made and displayed; when making it raises
\* (the class has no annotations) no frame is added and the window, which
\* has no frame, is destroyed.
open_object_edit_frame(class_, old_data, check_parameters, allow_save) ==
    LET keys == IF allow_save THEN DOMAIN get_annotations(class_)
                ELSE ViewAnnotations(class_, old_data)
        frame == IF allow_save
                 THEN NewObjectFrameStruct(class_, "", old_data,
                                           ListBox_current(listbox), check_parameters)
                 ELSE NewObjectFrameStructView(class_, "", old_data,
                                               ListBox_current(listbox), check_parameters)
    IN IF keys = {} THEN
           /\ opened_frames' = <<>>
           /\ closed' = TRUE
           /\ dialog' = TRUE
       ELSE
           /\ opened_frames' = create_and_add_frame(frame)
           /\ closed' = FALSE
           /\ dialog' = FALSE

\* The host application opens a window and a frame in it, for a new object
\* or for the selected item of its listbox:
\* ObjectEditWindow().open_object_edit_frame(class_, listbox, old_data, check_parameters)
OpenFrame ==
    /\ opened_frames = <<>>
    /\ \E check \in BOOLEAN :
          \/ /\ Len(listbox.items) < MaxItems
             /\ \E class_ \in {"K1", "K2", "Z"} :
                   open_object_edit_frame(class_, NoneV, check, TRUE)
          \/ /\ ListBox_current(listbox) # -1
             /\ \E allow_save \in BOOLEAN :
                   LET old == At(listbox.items, ListBox_current(listbox))
                   IN open_object_edit_frame(old.class_, old, check, allow_save)
    /\ last' = "open"
    /\ UNCHANGED listbox
    /\ UNCHANGED notFrames

\* The user changes the selection of the listbox.
SelectItems ==
    /\ \E sel \in SUBSET (0..(Len(listbox.items) - 1)) :
          /\ sel # listbox.sel
          /\ listbox' = ListBox(listbox.items, sel)
    /\ dialog' = FALSE
    /\ last' = "select"
    /\ UNCHANGED <<opened_frames, closed>>
    /\ UNCHANGED notFrames

\* The user types into a field of the displayed frame.
TypeText ==
    /\ opened_frames # <<>>
    /\ Top.kind = "struct"
    /\ \E attr \in DOMAIN Top.fields, text \in Texts :
          /\ Top.fields[attr] # ComboBox(Top.fields[attr].items, -1, text)
          /\ opened_frames' = [opened_frames EXCEPT
                 ![Len(opened_frames)].fields[attr] = ComboBox(@.items, -1, text)]
    /\ dialog' = FALSE
    /\ last' = "type"
    /\ UNCHANGED <<listbox, closed>>
    /\ UNCHANGED notFrames

\* The user picks a value of a field of the displayed frame.
SelectValue ==
    /\ opened_frames # <<>>
    /\ Top.kind = "struct"
    /\ \E attr \in DOMAIN Top.fields :
          \E index \in 0..(ComboBox_count(Top.fields[attr]) - 1) :
             /\ Top.fields[attr].cur # index
             /\ opened_frames' = [opened_frames EXCEPT
                    ![Len(opened_frames)].fields[attr] = ComboBox_current(@, index)]
    /\ dialog' = FALSE
    /\ last' = "pick"
    /\ UNCHANGED <<listbox, closed>>
    /\ UNCHANGED notFrames

\* The user types into the Spinbox of the displayed number frame.
TypeNumber ==
    /\ opened_frames # <<>>
    /\ Top.kind = "number"
    /\ \E text \in Texts :
          /\ Top.storage # text
          /\ opened_frames' = [opened_frames EXCEPT ![Len(opened_frames)].storage = text]
    /\ dialog' = FALSE
    /\ last' = "number"
    /\ UNCHANGED <<listbox, closed>>
    /\ UNCHANGED notFrames

\* "Load template" of the displayed struct frame: a template of another
\* class is refused with an error, one of the class of the frame is loaded.
LoadTemplate ==
    /\ opened_frames # <<>>
    /\ Top.kind = "struct"
    /\ \E object_info \in Templates :
          IF object_info.class_ # Top.class_ THEN
              /\ dialog' = TRUE
              /\ UNCHANGED opened_frames
          ELSE
              /\ StructFrame_load(Top, object_info).nick \in EntryNicknames
              /\ dialog' = FALSE
              /\ opened_frames' = [opened_frames EXCEPT
                     ![Len(opened_frames)] = StructFrame_load(@, object_info)]
    /\ last' = "load"
    /\ UNCHANGED <<listbox, closed>>
    /\ UNCHANGED notFrames

\* new_object_frame(class_, widget, old_data) of the displayed frame, which
\* hands its allow_save on: the window makes a number frame for int and a
\* struct frame for a class of the application.
new_object_frame(class_, attr, old_data) ==
    LET widget == Top.fields[attr]
    IN IF class_ = "int"
       THEN NewObjectFrameNumber(class_, attr, old_data, widget.cur, Top.allow_save,
                                 ComboBox_get(widget))
       ELSE IF Top.allow_save
            THEN NewObjectFrameStruct(class_, attr, old_data, widget.cur, TRUE)
            ELSE NewObjectFrameStructView(class_, attr, old_data, widget.cur, TRUE)

\* "New <class>" of a field: new_object_frame(entry_type, combo); the menu
\* has its commands when the frame allows saving.
NewNested ==
    /\ opened_frames # <<>>
    /\ Len(opened_frames) < MaxFrames
    /\ Top.kind = "struct"
    /\ Top.allow_save
    /\ \E attr \in DOMAIN Top.fields :
          LET types == FieldTypes(Top.class_, attr)
          IN /\ ComboBox_count(Top.fields[attr]) < MaxItems
             /\ \E j \in 1..Len(types) :
                   /\ types[j] \in UserClasses \cup {"int"}
                   /\ opened_frames' = create_and_add_frame(
                          new_object_frame(types[j], attr, NoneV))
    /\ dialog' = FALSE
    /\ last' = "new"
    /\ UNCHANGED <<listbox, closed>>
    /\ UNCHANGED notFrames

\* _edit_selected(key, combo): a typed text is cast to the types of the
\* field first; new_object_frame(class of the selection, combo, old_data=selection)
EditNested ==
    /\ opened_frames # <<>>
    /\ Len(opened_frames) < MaxFrames
    /\ Top.kind = "struct"
    /\ \E attr \in DOMAIN Top.fields :
          LET got == ComboBox_get(Top.fields[attr])
              cast == IF got.t = "str" THEN cast_type(got.s, FrameTypes(Top, attr))
                      ELSE Info(got, FALSE)
              selection == cast.val
          IN IF cast.raised THEN
                 /\ dialog' = TRUE
                 /\ UNCHANGED opened_frames
             ELSE
                 /\ selection.t \in {"oi", "int"}
                 /\ Top.fields[attr].cur = -1 => ComboBox_count(Top.fields[attr]) < MaxItems
                 /\ dialog' = FALSE
                 /\ opened_frames' = create_and_add_frame(
                        new_object_frame(IF selection.t = "oi" THEN selection.class_ ELSE "int",
                                         attr, selection))
    /\ last' = "edit"
    /\ UNCHANGED <<listbox, closed>>
    /\ UNCHANGED notFrames

\* The Save button: save_object_edit_frame()
Save ==
    /\ opened_frames # <<>>
    /\ save
    /\ last' = "save"
    /\ UNCHANGED notFrames

\* The Close button: close_object_edit_frame(), the user answering the
\* question "Do you wish to save?" when it is asked.
Close ==
    /\ opened_frames # <<>>
    /\ IF Top.allow_save /\ modified(Top) THEN
           \E resp \in {"yes", "no", "cancel"} :
              /\ last' = "close_" \o resp
              /\ CASE resp = "yes" -> save
                   [] resp = "no" -> cleanup /\ dialog' = FALSE
                   [] OTHER -> /\ dialog' = FALSE
                               /\ UNCHANGED <<opened_frames, listbox, closed>>
       ELSE /\ last' = "close"
            /\ cleanup
            /\ dialog' = FALSE
    /\ UNCHANGED notFrames

FramesNext ==
    \/ OpenFrame \/ SelectItems \/ TypeText \/ SelectValue
    \/ TypeNumber \/ LoadTemplate
    \/ NewNested \/ EditNested \/ Save \/ Close

SpecFrames == FramesInit /\ [][FramesNext]_vars

---------------------------------------------------------------------------
(* Claims about the frames *)

\* Whether the constructors reject what the fields of the frame hold: the
\* fields give an ObjectInfo, and creating its objects raises.
ConstructorRejects(frame) ==
    LET m == IF frame.kind # "struct" THEN [val |-> EmptyMap, raised |-> TRUE] ELSE to_object_items(frame, 1, [val |-> EmptyMap, raised |-> FALSE])
    IN /\ ~m.raised
       /\ convert_to_objects(ObjectInfo(frame.class_, m.val, NoneV), <<>>).raised

\* C9: when a struct frame with check_parameters on is saved and the
\* constructor of its class rejects the entered arguments, the error is shown
\* and nothing else changes: the items and the selection of the return widget
\* stay as they were and the frame stays the displayed one of the window.
C9_RejectedSaveChangesNothing ==
    [][(/\ last' \in {"save", "close_yes"}
        /\ opened_frames # <<>>
        /\ Top.check_parameters
        /\ ConstructorRejects(Top))
           => (/\ dialog'
               /\ opened_frames' = opened_frames
               /\ listbox' = listbox
               /\ closed' = closed)]_vars

\* A save of a frame whose constructor rejects the fields has shown the error.
C9_Witness ==
    /\ last = "save"
    /\ dialog
    /\ opened_frames # <<>>
    /\ Top.check_parameters
    /\ ConstructorRejects(Top)

\* The fields of a frame whose widget does not hold the empty string.
NonEmptyFields(frame) ==
    {a \in DOMAIN frame.fields : ComboBox_get(frame.fields[a]) # StrV("")}

\* Where _update_ret_widget puts the new object in a widget of count items.
SavedIndex(frame, count) ==
    IF frame.old_gui_data # NoneV /\ frame.editing_index # -1
    THEN frame.editing_index ELSE count

\* C17: the ObjectInfo a struct frame saves has no key for a field whose
\* widget holds the empty string and a key for every other field.
C17_EmptyFieldHasNoKey ==
    [][(/\ last' \in {"save", "close_yes"}
        /\ ~dialog'
        /\ opened_frames # <<>>
        /\ Top.kind = "struct")
           => LET n == Len(opened_frames)
                  new == IF n = 1
                         THEN At(listbox'.items,
                                 SavedIndex(Top, Len(listbox.items)))
                         ELSE At(opened_frames'[n - 1].fields[Top.retAttr].items,
                                 SavedIndex(Top, Len(opened_frames[n - 1].fields[Top.retAttr].items)))
              IN /\ new.t = "oi"
                 /\ DOMAIN new.data = NonEmptyFields(Top)]_vars

\* A frame of K1 has been saved with its field b empty.
C17_Witness ==
    /\ last = "save"
    /\ ~dialog
    /\ \E j \in 1..Len(listbox.items) :
          /\ listbox.items[j].class_ = "K1"
          /\ DOMAIN listbox.items[j].data = {"a"}

---------------------------------------------------------------------------
(* Decomposition of live objects: convert_to_object_info applied to a      *)
(* value that may hold objects of a heap, under a table of conversion      *)
(* rules.                                                                  *)

\* Objects a heap holds at most
MaxObjects == 2

Graph(heap, root) == [t |-> "graph", heap |-> heap, root |-> root]

LivePrims == {IntV(0), IntV(1), FloatV(1), StrV("s"), BoolV(TRUE), DecimalV(1),
              NoneV, EnumV("Color", "R")}

LiveLeaves == {IntV(0), NoneV, DecimalV(1), EnumV("Color", "R"),
               ObjV("Z", EmptyMap), ObjV("D", [d |-> IntV(0)]),
               ObjV("K1", [a |-> IntV(0), b |-> IntV(0)])}

\* The values an attribute of the first object of a heap of n objects holds.
LiveValues(n) == LiveLeaves \cup {RefV(a) : a \in 1..n} \cup {ListV(<<RefV(1)>>)}

\* The first object of a heap of n objects, and the other ones.
LiveObjects(n) ==
    {ObjV("K2", at) : at \in Maps({"c", "u"}, LiveValues(n))}
        \cup {ObjV("K1", at) : at \in Maps({"a", "b"}, {IntV(0), RefV(1)})}
OtherObjects(n) == {ObjV("K2", at) : at \in Maps({"c"}, {RefV(a) : a \in 1..n})}

Heaps ==
    UNION {{<<o>> \o rest : o \in LiveObjects(n), rest \in [1..(n - 1) -> OtherObjects(n)]} :
              n \in 1..MaxObjects}

LiveGraphs ==
    {Graph(h, RefV(1)) : h \in Heaps}
        \cup {Graph(<<>>, v) : v \in LivePrims \cup {ListV(<<DecimalV(1), IntV(0)>>)}}

\* The tables of conversion rules: the stock one, and one where a host
\* application registered that K2 keeps c under u and u under c.
RuleTables == {StockRules, Merge(StockRules, [k \in {"K2"} |-> [c |-> "u", u |-> "c"]])}

DecomposeInit ==
    /\ x \in LiveGraphs
    /\ pc = "live"
    /\ enc = Idle
    /\ dec = Idle
    /\ built = Idle
    /\ info = Idle
    /\ MemoIdle
    /\ TypesIdle
    /\ FramesIdle
    /\ ALIASES = EmptyMap
    /\ ADDITIONAL_ANNOTATIONS = StockAnnotations
    /\ CONVERSION_ATTR_TO_PARAM \in RuleTables
    /\ clsdict = NoAttributes
    /\ regcall = Idle
    /\ cls_name_cache = EmptyMap
    /\ ScriptIdle
    /\ CastIdle
    /\ ClipIdle
    /\ LateIdle

\* info = convert_to_object_info(object_), the outcome
Decompose ==
    /\ pc = "live"
    /\ info' = convert_to_object_info_in(x.heap, x.root, 0)
    /\ pc' = "info"
    /\ UNCHANGED <<x, enc, dec, built>>
    /\ UNCHANGED <<memoVars, typeVars, frameVars, extVars>>

DecomposeNext == Decompose

SpecDecompose == DecomposeInit /\ [][DecomposeNext]_vars

---------------------------------------------------------------------------
(* Claims about convert_to_object_info *)

\* The object decomposed, the attribute each parameter is read from, the
\* parameters whose read succeeds and the value read.
RootObject == ObjectOf(x.heap, x.root)
RootSources == get_conversion_map(RootObject.cls)
RootRead == {k \in DOMAIN RootSources : RootSources[k] \in DOMAIN RootObject.attrs}
RootValue(k) == RootObject.attrs[RootSources[k]]

\* The parameters whose attribute refers to the object itself.
SelfParams == {k \in RootRead : RootValue(k) = x.root}

\* C11: convert_to_object_info of an object one of whose parameter
\* attributes refers to the object itself returns, and the data of the
\* ObjectInfo holds the object itself under that parameter.
C11_SelfReferenceStoredRaw ==
    (pc = "info" /\ x.root.t = "ref") =>
        /\ ~info.raised
        /\ info.val.t = "oi"
        /\ \A k \in SelfParams :
              k \in DOMAIN info.val.data /\ info.val.data[k] = x.root

C11_Witness ==
    /\ pc = "info"
    /\ x.root.t = "ref"
    /\ "c" \in SelfParams
    /\ "c" \in DOMAIN info.val.data
    /\ info.val.data["c"] = RefV(1)
    /\ Len(x.heap) = 2

\* Whether calling the class of a value with no argument succeeds, for a
\* class that is not a builtin: every parameter has a default.
ZeroArgumentConstructible(v) ==
    /\ IsObject(v)
    /\ LET c == ObjectOf(x.heap, v).cls
       IN \A j \in 1..Len(InitParams(c)) : InitParams(c)[j] \in DOMAIN InitDefaults(c)

\* Whether the constructor of the class of a value has no parameter.
NoParameters(v) == IsObject(v) /\ Len(InitParams(ObjectOf(x.heap, v).cls)) = 0

\* What the decomposition of one value read from the object gives.
RootConverted(k) ==
    IF RootValue(k) = x.root /\ x.root.t = "ref" THEN Info(RootValue(k), FALSE)
    ELSE convert_to_object_info_in(x.heap, RootValue(k), 1)

\* C12 as stated: the data of the ObjectInfo of an object holds exactly the
\* parameters whose read succeeded and whose value is not of a non-builtin
\* type constructible with zero arguments.
C12_DataHoldsReadableNotZeroArgument ==
    (pc = "info" /\ IsObject(x.root)) =>
        DOMAIN info.val.data = {k \in RootRead : ~ZeroArgumentConstructible(RootValue(k))}

\* C12: the data of the ObjectInfo of an object holds exactly the parameters
\* whose read succeeded, whose value is not of a non-builtin type whose
\* constructor has no parameter and whose own decomposition did not raise,
\* each with the decomposition of its own value; nothing raises.
C12_DataHoldsReadableWithParameters ==
    (pc = "info" /\ IsObject(x.root)) =>
        /\ ~info.raised
        /\ DOMAIN info.val.data =
              {k \in RootRead : ~NoParameters(RootValue(k)) /\ ~RootConverted(k).raised}
        /\ \A k \in DOMAIN info.val.data : info.val.data[k] = RootConverted(k).val

C12_Witness ==
    /\ pc = "info"
    /\ IsObject(x.root)
    /\ RootObject.cls = "K2"
    /\ "c" \in RootRead /\ NoParameters(RootValue("c"))
    /\ "u" \notin RootRead
    /\ info.val.data = EmptyMap

\* The values that are primitives or enum members.
IsPrimitive(v) == v.t \in {"int", "float", "str", "bool", "decimal", "none", "enum"}

\* C13 as stated: convert_to_object_info returns every primitive, a Decimal
\* included, and every enum member unchanged.
C13_PrimitivesUnchanged ==
    (pc = "info" /\ IsPrimitive(x.root)) => info = Info(x.root, FALSE)

\* C13: convert_to_object_info returns every int, float, str, bool, None
\* and enum member unchanged, and a Decimal as the float of the same value.
C13_PrimitivesUnchangedDecimalAsFloat ==
    (pc = "info" /\ IsPrimitive(x.root)) =>
        info = Info(IF x.root.t = "decimal" THEN FloatV(x.root.d) ELSE x.root, FALSE)

C13_Witness ==
    /\ pc = "info"
    /\ x.root = DecimalV(1)
    /\ info.val = FloatV(1)

---------------------------------------------------------------------------
(* Claims about the encoding convert_to_dict gives *)

\* Whether a value is or holds, at any depth, an ObjectInfo or an enum member.
RECURSIVE HoldsObjectInfoOrEnum(_)
HoldsObjectInfoOrEnum(v) ==
    CASE v.t \in {"oi", "enum"} -> TRUE
      [] v.t \in {"list", "tuple"} ->
            \E j \in 1..Len(Items(v)) : HoldsObjectInfoOrEnum(Items(v)[j])
      [] v.t = "dict" -> \E k \in DOMAIN v.kv : HoldsObjectInfoOrEnum(v.kv[k])
      [] OTHER -> FALSE

\* C14: the result of convert_to_dict holds no ObjectInfo and no enum member
\* at any depth, for a value built from ObjectInfo nodes, enum members,
\* primitives, lists and tuples.
C14_EncodingHoldsNoObjectInfo ==
    enc # Idle => ~HoldsObjectInfoOrEnum(enc)

---------------------------------------------------------------------------
(* Claims about convert_objects_to_script *)

\* C15: the import list convert_objects_to_script returns holds each import
\* statement at most once.
C15_ImportsWithoutDuplicates ==
    script # Idle =>
        \A i, j \in 1..Len(script.imports) :
            script.imports[i] = script.imports[j] => i = j

---------------------------------------------------------------------------
(* cast_type applied to a text and a tuple of types *)

\* Types a call of cast_type is given at most
MaxTypes == 2

CastTexts == {"", "1", "5", "x", "{}"}
CastTypes == {"int", "str", "float", "bool", "NoneType", "dict", "K1", "Decimal"}

CastInit ==
    /\ castArg \in {[value |-> text, types |-> types] :
                       text \in CastTexts, types \in SeqsUpTo(CastTypes, MaxTypes)}
    /\ castRes = Idle
    /\ pc = "cast"
    /\ ConvIdle
    /\ MemoIdle
    /\ TypesIdle
    /\ FramesIdle
    /\ RegIdle
    /\ ScriptIdle
    /\ ClipIdle
    /\ LateIdle

\* castRes = cast_type(value, types), the outcome
Cast ==
    /\ pc = "cast"
    /\ castRes' = cast_type(castArg.value, castArg.types)
    /\ pc' = "casted"
    /\ UNCHANGED castArg
    /\ UNCHANGED <<convData, memoVars, typeVars, frameVars, regVars, script, clipVars, lateVars>>

CastNext == Cast

SpecCast == CastInit /\ [][CastNext]_vars

\* The types of the call whose constructor accepts the text, in any module.
Accepting == {j \in 1..Len(castArg.types) :
                 ~call_type(castArg.types[j], castArg.value).raised}

\* The types of the builtins module whose conversion accepts the text: the
\* JSON parser for dict, the constructor for the other types.
AcceptingBuiltin ==
    {j \in 1..Len(castArg.types) :
        /\ castArg.types[j] \in {"int", "str", "float", "bool", "NoneType", "dict"}
        /\ IF castArg.types[j] = "dict" THEN ~json_loads(castArg.value).raised
           ELSE j \in Accepting}

First(js) == CHOOSE j \in js : \A i \in js : j <= i

---------------------------------------------------------------------------
(* The registries: aliases, additional annotations, conversion rules and   *)
(* deprecations.  A host application registers on its classes K1, K3(K1)   *)
(* and K2, on an instance of functools.partial and on the class F.         *)
MaxRegistrations == 2

RegClasses == {"K1", "K2", "K3"}
Annotated == RegClasses \cup Uninspectable \cup Unresolvable

\* A type handed over as an argument.
TypeV(n) == [t |-> "type", n |-> n]

\* cls.__mro__ without object.
RECURSIVE mro(_)
mro(c) == IF c = "object" THEN <<>> ELSE <<c>> \o mro(Base(c))

\* issubclass(type_, class_)
issubclass(type_, class_) == \E j \in 1..Len(mro(type_)) : mro(type_)[j] = class_

\* The attributes a class has of its own: __deprecated__, and the objects
\* __wiz_deprecated_params__ and __wiz_deprecated_param_types__ refer to
\* ("": the attribute is not set on the class itself).
NoOwn == [deprecated |-> FALSE, params |-> "", types |-> ""]
Own(c) == IF c \in DOMAIN clsdict.own THEN clsdict.own[c] ELSE NoOwn

\* getattr(cls, name, default): the attribute of the first class of
\* cls.__mro__ that has it set, the default when none has.
getattr(cls, name) ==
    LET having == {j \in 1..Len(mro(cls)) : Own(mro(cls)[j])[name] # NoOwn[name]}
    IN IF having = {} THEN NoOwn[name]
       ELSE Own(mro(cls)[CHOOSE j \in having : \A i \in having : j <= i])[name]

\* chain.from_iterable(map(convert_types, types)) for plain classes, none of
\* them abstract or wrapped: a builtin type alone, a class with its subclasses.
expand_types(types) ==
    UNION {IF t.n \in {"int", "bool"} THEN {t}
           ELSE {TypeV(u) : u \in {c \in RegClasses : issubclass(c, t.n)}} : t \in types}

\* register_alias(cls, alias): the new ALIASES
register_alias(cls, alias) == Merge(ALIASES, [c \in {cls} |-> alias])

\* get_aliased_name(class_)
get_aliased_name(class_) == IF class_ \in DOMAIN ALIASES THEN StrV(ALIASES[class_]) ELSE NoneV

\* register_annotations(cls, mapping): the new ADDITIONAL_ANNOTATIONS
register_annotations(cls, mapping) ==
    Merge(ADDITIONAL_ANNOTATIONS,
          [c \in {cls} |-> Merge(Lookup(ADDITIONAL_ANNOTATIONS, cls), mapping)])

\* register_object_objectinfo_rule(cls, mapping): the new CONVERSION_ATTR_TO_PARAM
register_object_objectinfo_rule(cls, mapping) ==
    Merge(CONVERSION_ATTR_TO_PARAM,
          [c \in {cls} |-> Merge(Lookup(CONVERSION_ATTR_TO_PARAM, cls), mapping)])

\* register_deprecated(cls, parameter, *types): the class attributes after
\* it.  A set or dict that getattr finds on a base class is the object that
\* becomes the attribute of cls and is then updated in place; a new object
\* is filed under the class it is created for.
register_deprecated(cls, parameter, types) ==
    IF parameter = NoneV THEN
        [clsdict EXCEPT !.own = Merge(@, [c \in {cls} |-> [Own(cls) EXCEPT !.deprecated = TRUE]])]
    ELSE IF types = {} THEN
        LET found == getattr(cls, "params")
            object == IF found = "" THEN cls ELSE found
            old == IF found = "" THEN {} ELSE clsdict.params[found]
        IN [clsdict EXCEPT
              !.own = Merge(@, [c \in {cls} |-> [Own(cls) EXCEPT !.params = object]]),
              !.params = Merge(@, [o \in {object} |-> old \cup {parameter.s}])]
    ELSE
        LET found == getattr(cls, "types")
            object == IF found = "" THEN cls ELSE found
            old == IF found = "" THEN EmptyMap ELSE clsdict.types[found]
            before == IF parameter.s \in DOMAIN old THEN old[parameter.s] ELSE {}
        IN [clsdict EXCEPT
              !.own = Merge(@, [c \in {cls} |-> [Own(cls) EXCEPT !.types = object]]),
              !.types = Merge(@, [o \in {object} |->
                            Merge(old, [q \in {parameter.s} |-> before \cup expand_types(types)])])]

\* is_deprecated(cls, parameter, type_), parameter and type_ None when omitted.
is_deprecated(cls, parameter, type_) ==
    IF parameter = NoneV THEN getattr(cls, "deprecated")
    ELSE IF type_ = NoneV THEN
        LET found == getattr(cls, "params")
            params == IF found = "" THEN {} ELSE clsdict.params[found]
        IN parameter.s \in params
    ELSE
        LET found == getattr(cls, "types")
            dict == IF found = "" THEN EmptyMap ELSE clsdict.types[found]
            depr_types == IF parameter.s \in DOMAIN dict THEN dict[parameter.s] ELSE {}
        IN \/ getattr(type_.n, "deprecated")
           \/ type_ \in depr_types
           \/ \E depr_type \in depr_types : issubclass(type_.n, depr_type.n)

\* Whether the mapping get_annotations returns is the dict the registry
\* holds for class_: the dict display {**annotations, **additional} is new.
returns_registered_dict(class_) == FALSE

\* What a host application registers.
Aliases == {"Alias"}
AnnotationMappings == {[a |-> "str"], [return |-> "str", z |-> "int"]}
RuleMappings == {[a |-> "b"]}
DeprecatedParams == {"a", "b"}
DeprecatedTypes == {TypeV("int"), TypeV("K1")}
DeprecationArgs ==
    {<<NoneV, {}>>} \cup {<<StrV(q), {}>> : q \in DeprecatedParams}
        \cup {<<StrV("a"), {t}>> : t \in DeprecatedTypes}

RegCount == IF regcall = Idle THEN 0 ELSE regcall.n
RegCall(op, cls) == [op |-> op, cls |-> cls, n |-> RegCount + 1]

RegInit ==
    /\ pc = "registry"
    /\ ConvIdle
    /\ MemoIdle
    /\ TypesIdle
    /\ FramesIdle
    /\ ExtIdle

RegisterAlias ==
    \E cls \in {"K1", "K3"}, alias \in Aliases :
        /\ RegCount < MaxRegistrations
        /\ ALIASES' = register_alias(cls, alias)
        /\ regcall' = RegCall("register_alias", cls)
        /\ UNCHANGED <<ADDITIONAL_ANNOTATIONS, CONVERSION_ATTR_TO_PARAM, clsdict, cls_name_cache>>
        /\ UNCHANGED <<convVars, memoVars, typeVars, frameVars, script, castVars, clipVars, lateVars>>

RegisterAnnotations ==
    \E cls \in Annotated \ {"K2"}, mapping \in AnnotationMappings :
        /\ RegCount < MaxRegistrations
        /\ ADDITIONAL_ANNOTATIONS' = register_annotations(cls, mapping)
        /\ regcall' = [op |-> "register_annotations", cls |-> cls, n |-> RegCount + 1,
                       mapping |-> mapping]
        /\ UNCHANGED <<ALIASES, CONVERSION_ATTR_TO_PARAM, clsdict, cls_name_cache>>
        /\ UNCHANGED <<convVars, memoVars, typeVars, frameVars, script, castVars, clipVars, lateVars>>

RegisterRule ==
    \E cls \in {"K1", "K3"}, mapping \in RuleMappings :
        /\ RegCount < MaxRegistrations
        /\ CONVERSION_ATTR_TO_PARAM' = register_object_objectinfo_rule(cls, mapping)
        /\ regcall' = RegCall("register_object_objectinfo_rule", cls)
        /\ UNCHANGED <<ALIASES, ADDITIONAL_ANNOTATIONS, clsdict, cls_name_cache>>
        /\ UNCHANGED <<convVars, memoVars, typeVars, frameVars, script, castVars, clipVars, lateVars>>

RegisterDeprecated ==
    \E cls \in RegClasses, args \in DeprecationArgs :
        /\ RegCount < MaxRegistrations
        /\ clsdict' = register_deprecated(cls, args[1], args[2])
        /\ regcall' = RegCall("register_deprecated", cls)
        /\ UNCHANGED <<ALIASES, ADDITIONAL_ANNOTATIONS, CONVERSION_ATTR_TO_PARAM, cls_name_cache>>
        /\ UNCHANGED <<convVars, memoVars, typeVars, frameVars, script, castVars, clipVars, lateVars>>

\* returned = get_annotations(class_), or the call raises
GetAnnotations ==
    \E class_ \in Annotated :
        /\ regcall' = [op |-> "get_annotations", cls |-> class_, n |-> RegCount,
                       raised |-> get_annotations_raises(class_),
                       returned |-> IF get_annotations_raises(class_) THEN EmptyMap
                                    ELSE get_annotations(class_)]
        /\ UNCHANGED <<ALIASES, ADDITIONAL_ANNOTATIONS, CONVERSION_ATTR_TO_PARAM, clsdict, cls_name_cache>>
        /\ UNCHANGED <<convVars, memoVars, typeVars, frameVars, script, castVars, clipVars, lateVars>>

\* The caller of get_annotations stores a key into the mapping it got.
ChangeReturned ==
    /\ regcall # Idle
    /\ regcall.op = "get_annotations"
    /\ ~regcall.raised
    /\ regcall' = [regcall EXCEPT !.op = "changed",
                                  !.returned = Merge(@, [k \in {"a"} |-> "changed"])]
    /\ ADDITIONAL_ANNOTATIONS' =
          IF returns_registered_dict(regcall.cls)
          THEN Merge(ADDITIONAL_ANNOTATIONS, [c \in {regcall.cls} |-> regcall'.returned])
          ELSE ADDITIONAL_ANNOTATIONS
    /\ UNCHANGED <<ALIASES, CONVERSION_ATTR_TO_PARAM, clsdict, cls_name_cache>>
    /\ UNCHANGED <<convVars, memoVars, typeVars, frameVars, script, castVars, clipVars, lateVars>>

\* NewObjectFrameBase.get_cls_name(cls), the body under @cache: the pieces of
\* the name, or the UnboundLocalError of reading name before it is bound.
get_cls_name(cls) ==
    IF get_aliased_name(cls) # NoneV THEN Info(<<>>, TRUE)
    ELSE Info(<<cls>>, FALSE)

\* functools.cache around it: a result is kept, an exception is not.
GetClsName ==
    \E cls \in RegClasses :
        LET hit == cls \in DOMAIN cls_name_cache
            out == IF hit THEN Info(cls_name_cache[cls], FALSE) ELSE get_cls_name(cls)
        IN /\ RegCount < MaxRegistrations
           /\ regcall' = [op |-> "get_cls_name", cls |-> cls, n |-> RegCount + 1,
                          returned |-> out.val, raised |-> out.raised]
           /\ cls_name_cache' = IF hit \/ out.raised THEN cls_name_cache
                                 ELSE Merge(cls_name_cache, [c \in {cls} |-> out.val])
           /\ UNCHANGED <<ALIASES, ADDITIONAL_ANNOTATIONS, CONVERSION_ATTR_TO_PARAM, clsdict>>
           /\ UNCHANGED <<convVars, memoVars, typeVars, frameVars, script, castVars, clipVars, lateVars>>

RegNext ==
    \/ GetClsName
    \/ RegisterAlias
    \/ RegisterAnnotations
    \/ RegisterRule
    \/ RegisterDeprecated
    \/ GetAnnotations
    \/ ChangeReturned

SpecRegistry == RegInit /\ [][RegNext]_vars

---------------------------------------------------------------------------
(* Claims about the registries *)

\* What reflection yields for class_ (nothing when it raises), what has been
\* registered for it, and the former overridden key by key by the latter,
\* without the key "return".
Reflected(class_) ==
    IF class_ \in Uninspectable \cup Unresolvable THEN EmptyMap ELSE InitHints(class_)
Registered(class_) ==
    IF class_ \in DOMAIN ADDITIONAL_ANNOTATIONS THEN ADDITIONAL_ANNOTATIONS[class_] ELSE EmptyMap
Overridden(class_) ==
    [k \in (DOMAIN Reflected(class_) \cup DOMAIN Registered(class_)) \ {"return"} |->
        IF k \in DOMAIN Registered(class_) THEN Registered(class_)[k] ELSE Reflected(class_)[k]]

\* What the latest call of get_annotations handed back agrees with the
\* function, a registration shows in the annotations of its class, and a
\* change of the returned mapping changes no later result.
ReturnedAsComputed ==
    (regcall'.op = "get_annotations" /\ ~regcall'.raised)
        => regcall'.returned = get_annotations(regcall'.cls)
RegistrationShows ==
    \A c \in Annotated \ Unresolvable :
        (regcall'.op = "register_annotations" /\ regcall'.cls = c)
            => \A k \in DOMAIN regcall'.mapping \ {"return"} :
                  get_annotations(c)'[k] = regcall'.mapping[k]
ChangeKeepsLater ==
    regcall'.op = "changed"
        => \A c \in Annotated : get_annotations(c)' = get_annotations(c)

\* C18 as stated: get_annotations(C) is the reflected annotations overridden
\* key by key by the registered ones, never has the key "return", never
\* raises and is empty when C cannot be introspected, and a change of the
\* returned mapping changes no later result.
C18_AnnotationsEmptyWhenOpaque ==
    [][/\ \A c \in Annotated :
            /\ ~get_annotations_raises(c)
            /\ get_annotations(c)' = Overridden(c)'
            /\ "return" \notin DOMAIN get_annotations(c)'
            /\ get_type_hints(c).raised => get_annotations(c)' = EmptyMap
       /\ ReturnedAsComputed
       /\ RegistrationShows
       /\ ChangeKeepsLater]_vars

\* C18: get_annotations(C) is the reflected annotations overridden key by
\* key by the registered ones and never has the key "return"; when
\* reflecting C raises TypeError it returns the registered annotations alone,
\* which are empty only when nothing is registered for C; when reflecting C
\* raises NameError so does the call; a change of the returned mapping
\* changes no later result.
C18_AnnotationsRegisteredWhenOpaque ==
    [][/\ \A c \in Annotated :
            /\ get_annotations_raises(c) <=> c \in Unresolvable
            /\ c \notin Unresolvable =>
                  /\ get_annotations(c)' = Overridden(c)'
                  /\ "return" \notin DOMAIN get_annotations(c)'
            /\ c \in Uninspectable =>
                  get_annotations(c)' = [k \in DOMAIN Registered(c)' \ {"return"} |-> Registered(c)'[k]]
       /\ regcall'.op = "get_annotations" => (regcall'.raised <=> regcall'.cls \in Unresolvable)
       /\ ReturnedAsComputed
       /\ RegistrationShows
       /\ ChangeKeepsLater]_vars

\* Annotations were registered for K1 and for the partial; get_annotations
\* of the partial returned the registered ones and the caller changed them.
C18_Witness ==
    /\ regcall # Idle
    /\ regcall.op = "changed"
    /\ regcall.cls = "partial"
    /\ regcall.returned = [z |-> "int", a |-> "changed"]
    /\ get_annotations("partial") = [z |-> "int"]
    /\ get_annotations("K1") = [a |-> "str", b |-> "int"]

\* The lookups of a type.
LookupTypes == {TypeV("int"), TypeV("bool"), TypeV("K1"), TypeV("K3")}
Lookups(U) ==
    [aliased |-> get_aliased_name(U),
     annotations |-> get_annotations(U),
     deprecated |-> is_deprecated(U, NoneV, NoneV),
     params |-> [q \in DeprecatedParams |-> is_deprecated(U, StrV(q), NoneV)],
     types |-> [q \in DeprecatedParams \X LookupTypes |-> is_deprecated(U, StrV(q[1]), q[2])]]

Registrations == {"register_alias", "register_annotations",
                  "register_object_objectinfo_rule", "register_deprecated"}

\* C20 as stated: a registration on a type T leaves every lookup of every
\* other type U as it was, a base class or subclass of T included.
C20_RegistrationChangesOnlyItsType ==
    [][regcall'.op \in Registrations
          => \A U \in RegClasses \ {regcall'.cls} : Lookups(U)' = Lookups(U)]_vars

---------------------------------------------------------------------------
(* The clipboard: GLOBAL.clipboard and the copy and paste handlers of the  *)
(* storage widgets.  A window shows a ListBoxObjects and a ComboBoxObjects *)
(* whose selection the user changes at will.                               *)
MaxClipCalls == 3
MaxSelectable == 3

\* The texts a user types into the entry of a combo box.
ClipTexts == {"", "ab"}

\* The characters of a text, as iterating over a str yields them.
Chars(text) ==
    IF text = "ab" THEN <<StrV("a"), StrV("b")>>
    ELSE IF text = "" THEN <<>>
    ELSE <<StrV(text)>>

\* isinstance(value, Iterable): a list and a str are, an int is not.
IsIterable(value) == value.t \in {"list", "str"}

\* The elements that iterating over an Iterable value yields.
Elements(value) == IF value.t = "list" THEN value.l ELSE Chars(value.s)

IsListBox(w) == "sel" \in DOMAIN w

\* min(selection), max(selection)
MinOf(selection) == CHOOSE i \in selection : \A j \in selection : i <= j
MaxOf(selection) == CHOOSE i \in selection : \A j \in selection : j <= i

\* ListBoxObjects.save_to_clipboard: the new clipboard
ListBox_save_to_clipboard(w) ==
    LET selection == w.sel
    IN IF selection # {} THEN
           LET object_ == SubSeq(w.items, MinOf(selection) + 1, MaxOf(selection) + 1)
           IN IF Cardinality(selection) > 1 THEN ListV(object_) ELSE object_[1]
       ELSE clipboard

\* ListBoxObjects.paste_from_clipboard: the widget after it
ListBox_paste_from_clipboard(w) ==
    IF clipboard = NoClipBoard THEN w
    ELSE IF IsIterable(clipboard) THEN [w EXCEPT !.items = @ \o Elements(clipboard)]
    ELSE [w EXCEPT !.items = Append(@, clipboard)]

\* ComboBoxObjects.save_to_clipboard: the new clipboard
ComboBox_save_to_clipboard(w) == ComboBox_get(w)

\* ComboBoxObjects.paste_from_clipboard: the widget after it
ComboBox_paste_from_clipboard(w) ==
    LET value == clipboard
    IN IF value = NoClipBoard THEN w
       ELSE LET inserted == IF \E j \in 1..Len(w.items) : PyEq(w.items[j], value) THEN w
                            ELSE ComboBox_insert(w, Len(w.items), value)
            IN ComboBox_current(inserted, IndexOf(inserted.items, value))

ClipCount == IF clipcall = Idle THEN 0 ELSE clipcall.n
ClipCall(op, w) == [op |-> op, w |-> w, n |-> ClipCount + 1]

ClipInit ==
    /\ clipboard = NoClipBoard
    /\ widgets \in {<<ListBox(<<IntV(0), IntV(1), IntV(2)>>, {}), ComboBox(<<IntV(0)>>, -1, "")>>,
                    <<ListBox(<<StrV("ab"), ListV(<<IntV(0), IntV(1)>>), IntV(2)>>, {}),
                      ComboBox(<<IntV(0)>>, -1, "")>>}
    /\ clipcall = Idle
    /\ pc = "clipboard"
    /\ ConvIdle
    /\ MemoIdle
    /\ TypesIdle
    /\ FramesIdle
    /\ RegIdle
    /\ ScriptIdle
    /\ CastIdle
    /\ LateIdle

\* The user selects items of a list box.
SelectRows ==
    \E w \in 1..Len(widgets) :
        /\ IsListBox(widgets[w])
        /\ \E sel \in SUBSET {i \in 0..(MaxSelectable - 1) : i < Len(widgets[w].items)} :
              widgets' = [widgets EXCEPT ![w] = ListBox(@.items, sel)]
        /\ UNCHANGED <<clipboard, clipcall>>
        /\ UNCHANGED <<convVars, memoVars, typeVars, frameVars, regVars, script, castVars, lateVars>>

\* The user selects an item of a combo box or types a text into its entry.
SelectCurrent ==
    \E w \in 1..Len(widgets) :
        /\ ~IsListBox(widgets[w])
        /\ \/ \E cur \in 0..(Len(widgets[w].items) - 1) :
                 widgets' = [widgets EXCEPT ![w] = ComboBox_current(@, cur)]
           \/ \E text \in ClipTexts :
                 widgets' = [widgets EXCEPT ![w] = ComboBox(@.items, -1, text)]
        /\ UNCHANGED <<clipboard, clipcall>>
        /\ UNCHANGED <<convVars, memoVars, typeVars, frameVars, regVars, script, castVars, lateVars>>

\* Copy on a list box: Control-c or the Copy button.
ListCopy ==
    \E w \in 1..Len(widgets) :
        /\ IsListBox(widgets[w])
        /\ ClipCount < MaxClipCalls
        /\ clipboard' = ListBox_save_to_clipboard(widgets[w])
        /\ clipcall' = ClipCall("copy", w)
        /\ UNCHANGED widgets
        /\ UNCHANGED <<convVars, memoVars, typeVars, frameVars, regVars, script, castVars, lateVars>>

\* Paste on a list box: Control-v or the Paste button.
ListPaste ==
    \E w \in 1..Len(widgets) :
        /\ IsListBox(widgets[w])
        /\ ClipCount < MaxClipCalls
        /\ widgets' = [widgets EXCEPT ![w] = ListBox_paste_from_clipboard(@)]
        /\ clipcall' = ClipCall("paste", w)
        /\ UNCHANGED clipboard
        /\ UNCHANGED <<convVars, memoVars, typeVars, frameVars, regVars, script, castVars, lateVars>>

\* Copy in the menu of a combo box.
ComboCopy ==
    \E w \in 1..Len(widgets) :
        /\ ~IsListBox(widgets[w])
        /\ ClipCount < MaxClipCalls
        /\ clipboard' = ComboBox_save_to_clipboard(widgets[w])
        /\ clipcall' = ClipCall("copy", w)
        /\ UNCHANGED widgets
        /\ UNCHANGED <<convVars, memoVars, typeVars, frameVars, regVars, script, castVars, lateVars>>

\* Paste in the menu of a combo box.
ComboPaste ==
    \E w \in 1..Len(widgets) :
        /\ ~IsListBox(widgets[w])
        /\ ClipCount < MaxClipCalls
        /\ widgets' = [widgets EXCEPT ![w] = ComboBox_paste_from_clipboard(@)]
        /\ clipcall' = ClipCall("paste", w)
        /\ UNCHANGED clipboard
        /\ UNCHANGED <<convVars, memoVars, typeVars, frameVars, regVars, script, castVars, lateVars>>

ClipNext ==
    \/ SelectRows
    \/ SelectCurrent
    \/ ListCopy
    \/ ListPaste
    \/ ComboCopy
    \/ ComboPaste

SpecClipboard == ClipInit /\ [][ClipNext]_vars

\* The values selected in a widget, in the order of the widget.
RECURSIVE SelectedFrom(_, _)
SelectedFrom(w, j) ==
    IF j > Len(w.items) THEN <<>>
    ELSE (IF (j - 1) \in w.sel THEN <<w.items[j]>> ELSE <<>>) \o SelectedFrom(w, j + 1)
SelectedValues(w) ==
    IF IsListBox(w) THEN SelectedFrom(w, 1)
    ELSE IF w.cur >= 0 THEN <<At(w.items, w.cur)>> ELSE <<>>

\* C19 as stated: a copy with something selected puts the selected value, or
\* the list of the selected values, on the clipboard; a copy with nothing
\* selected and every paste leave the clipboard as it was; a paste with an
\* empty clipboard leaves the widget as it was.
C19_ClipboardHoldsLatestSelection ==
    [][clipcall' # clipcall =>
          LET selected == SelectedValues(widgets[clipcall'.w])
          IN /\ (clipcall'.op = "copy" /\ Len(selected) = 1) => clipboard' = selected[1]
             /\ (clipcall'.op = "copy" /\ Len(selected) > 1) => clipboard' = ListV(selected)
             /\ (clipcall'.op = "copy" /\ Len(selected) = 0) => clipboard' = clipboard
             /\ clipcall'.op = "paste" => clipboard' = clipboard
             /\ (clipcall'.op = "paste" /\ clipboard = NoClipBoard) => widgets' = widgets]_vars

---------------------------------------------------------------------------
(* Extendable functions: extensions.extendable applied to a function obj.  *)
(* Extensions are registered on the ExtendableFunction and the function is *)
(* called with positional arguments.                                       *)
MaxExtensions == 2

\* The extensions a plugin registers: what each is called, and what it
\* returns: None, its last argument, or a value of its own.
Extensions == {[name |-> "log", returns |-> "None"],
               [name |-> "pass", returns |-> "last"],
               [name |-> "wrap", returns |-> "own"]}

\* ext(passed...): the value the extension returns
ReturnOf(ext, passed) ==
    IF ext.returns = "None" THEN NoneV
    ELSE IF ext.returns = "last" THEN passed[Len(passed)]
    ELSE StrV(ext.name)

\* The positional arguments the function is called with.
ExtArgs == {<<IntV(0)>>, <<IntV(0), IntV(1)>>}

\* obj(args...): the original function returns the list of its arguments
obj(args) == ListV(args)

CalledWith(who, passed) == [who |-> who, args |-> passed]

\* for ext in ExtendableFunction.__reg_post_ext__: r = ext(args..., r)
RECURSIVE call_post_ext(_, _, _, _)
call_post_ext(exts, args, r, trace) ==
    IF exts = <<>> THEN [r |-> r, trace |-> trace]
    ELSE LET ext == Head(exts)
             passed == Append(args, r)
         IN call_post_ext(Tail(exts), args, ReturnOf(ext, passed),
                          Append(trace, CalledWith(ext.name, passed)))

\* ExtendableFunction.__call__: what it returns and who it called with what
ExtendableFunction_call(args) ==
    LET pre == [i \in 1..Len(reg_pre_ext) |-> CalledWith(reg_pre_ext[i].name, args)]
        r == obj(args)
    IN call_post_ext(reg_post_ext, args, r, Append(pre, CalledWith("obj", args)))

ExtendInit ==
    /\ ExtendIdle
    /\ pc = "extend"
    /\ ConvIdle
    /\ MemoIdle
    /\ TypesIdle
    /\ FramesIdle
    /\ RegIdle
    /\ ScriptIdle
    /\ CastIdle
    /\ ClipIdle
    /\ TipIdle

OutsideExtend == <<convVars, memoVars, typeVars, frameVars, regVars, script, castVars, clipVars, tipVars>>

register_pre_extension ==
    /\ Len(reg_pre_ext) < MaxExtensions
    /\ \E extension \in Extensions : reg_pre_ext' = Append(reg_pre_ext, extension)
    /\ UNCHANGED <<reg_post_ext, extcall>>
    /\ UNCHANGED OutsideExtend

register_post_extension ==
    /\ Len(reg_post_ext) < MaxExtensions
    /\ \E extension \in Extensions : reg_post_ext' = Append(reg_post_ext, extension)
    /\ UNCHANGED <<reg_pre_ext, extcall>>
    /\ UNCHANGED OutsideExtend

\* A call of the extendable function; the extensions registered at the call
\* are kept with its record.
CallExtendable ==
    /\ \E args \in ExtArgs :
          LET done == ExtendableFunction_call(args)
          IN extcall' = [args |-> args, r |-> done.r, trace |-> done.trace,
                         pre |-> reg_pre_ext, post |-> reg_post_ext]
    /\ UNCHANGED <<reg_pre_ext, reg_post_ext>>
    /\ UNCHANGED OutsideExtend

ExtendNext ==
    \/ register_pre_extension
    \/ register_post_extension
    \/ CallExtendable

SpecExtend == ExtendInit /\ [][ExtendNext]_vars

\* C21 as stated: a call of an extendable function calls every registered
\* pre-extension, then the original function, then every registered
\* post-extension, each group in registration order, the pre-extensions and
\* the function with the arguments of the call and every post-extension with
\* those arguments followed by the result of the original function.
C21_PostExtensionsReceiveOriginalResult ==
    extcall # Idle =>
        LET t == extcall.trace
            np == Len(extcall.pre)
            nq == Len(extcall.post)
        IN /\ Len(t) = np + 1 + nq
           /\ \A i \in 1..np : t[i] = CalledWith(extcall.pre[i].name, extcall.args)
           /\ t[np + 1] = CalledWith("obj", extcall.args)
           /\ \A j \in 1..nq :
                 t[np + 1 + j] = CalledWith(extcall.post[j].name,
                                            Append(extcall.args, obj(extcall.args)))

\* C30 as stated: get_cls_name returns a name for every class and does not
\* fail, and the name it returns for a class with a registered alias contains
\* the alias.
C30_ClsNameShowsAlias ==
    (regcall # Idle /\ regcall.op = "get_cls_name") =>
        /\ ~regcall.raised
        /\ Len(regcall.returned) > 0
        /\ regcall.cls \in DOMAIN ALIASES =>
               \E i \in 1..Len(regcall.returned) : regcall.returned[i] = ALIASES[regcall.cls]

---------------------------------------------------------------------------
(* ListBoxObjects.delete(indexes...): the indexes are sorted, grouped into *)
(* ranges of consecutive indexes, and each range is deleted from Tk and    *)
(* from _original_items, the later indexes being shifted after each range. *)
MaxDeletable == 5

\* indexes as the caller gave them (no sorting)
as_given(indexes) == indexes

\* sorted(list(indexes))
RECURSIVE sorted(_)
sorted(indexes) ==
    IF indexes = <<>> THEN <<>>
    ELSE LET lo == CHOOSE j \in 1..Len(indexes) :
                       /\ \A k \in 1..Len(indexes) : indexes[j] <= indexes[k]
                       /\ \A k \in 1..(j - 1) : indexes[k] # indexes[j]
         IN <<indexes[lo]>> \o sorted(SubSeq(indexes, 1, lo - 1) \o SubSeq(indexes, lo + 1, Len(indexes)))

\* super().delete(first, last); del self._original_items[first:last + 1]
ListBox_delete_range(w, first_, last_) ==
    IF last_ < first_ THEN w
    ELSE ListBox(SubSeq(w.items, 1, first_) \o SubSeq(w.items, last_ + 2, Len(w.items)),
                 {IF i > last_ THEN i - (last_ - first_ + 1) ELSE i :
                     i \in {s \in w.sel : s < first_ \/ s > last_}})

\* The loop over create_ranges(): i is the position the generator looks at
\* (from the second index on), start_i the first_ index of the open range.
RECURSIVE create_ranges(_, _, _, _)
create_ranges(w, indexes, i, start_i) ==
    IF i > Len(indexes) THEN ListBox_delete_range(w, start_i, indexes[Len(indexes)])
    ELSE IF indexes[i] > indexes[i - 1] + 1 THEN
        LET first_ == start_i
            last_ == indexes[i - 1]
            shifted == [j \in 1..Len(indexes) |->
                           IF j >= i THEN indexes[j] - (last_ - first_ + 1) ELSE indexes[j]]
        IN create_ranges(ListBox_delete_range(w, first_, last_), shifted, i + 1, shifted[i])
    ELSE create_ranges(w, indexes, i + 1, start_i)

\* ListBoxObjects.delete(indexes...): the widget after it
ListBox_delete_indexes(w, indexes) ==
    LET ordered == sorted(indexes)
    IN create_ranges(w, ordered, 2, ordered[1])

\* The ways to name distinct valid indexes of n items, in any order.
IndexLists(n) ==
    LET valid == {i \in 0..(MaxDeletable - 1) : i < n}
    IN {s \in UNION {[1..k -> valid] : k \in 1..Cardinality(valid)} :
            \A a, b \in DOMAIN s : a # b => s[a] # s[b]}

DeleteInit ==
    /\ clipboard = NoClipBoard
    /\ widgets = <<ListBox(<<IntV(0), IntV(1), IntV(0), IntV(1), IntV(0)>>, {})>>
    /\ clipcall = Idle
    /\ pc = "delete"
    /\ ConvIdle
    /\ MemoIdle
    /\ TypesIdle
    /\ FramesIdle
    /\ RegIdle
    /\ ScriptIdle
    /\ CastIdle
    /\ LateIdle

\* delete(indexes...) on the list box
ListDelete ==
    \E w \in 1..Len(widgets) :
        /\ IsListBox(widgets[w])
        /\ ClipCount < MaxClipCalls
        /\ \E indexes \in IndexLists(Len(widgets[w].items)) :
              /\ widgets' = [widgets EXCEPT ![w] = ListBox_delete_indexes(@, indexes)]
              /\ clipcall' = [op |-> "delete", w |-> w, n |-> ClipCount + 1, indexes |-> indexes]
        /\ UNCHANGED clipboard
        /\ UNCHANGED <<convVars, memoVars, typeVars, frameVars, regVars, script, castVars, lateVars>>

DeleteNext ==
    \/ SelectRows
    \/ ListDelete

SpecDelete == DeleteInit /\ [][DeleteNext]_vars

\* The items at the positions that are not named, in their order.
RECURSIVE ItemsLeft(_, _, _)
ItemsLeft(items, named, j) ==
    IF j > Len(items) THEN <<>>
    ELSE (IF (j - 1) \in named THEN <<>> ELSE <<items[j]>>) \o ItemsLeft(items, named, j + 1)

\* C26: delete with distinct valid indexes, in any order, leaves the items
\* at the other positions in their order, and count() goes down by the
\* number of indexes.
C26_DeleteRemovesExactlyTheIndexes ==
    [][(clipcall' # clipcall /\ clipcall'.op = "delete") =>
          LET w == clipcall'.w
              named == {clipcall'.indexes[k] : k \in DOMAIN clipcall'.indexes}
          IN /\ widgets'[w].items = ItemsLeft(widgets[w].items, named, 1)
             /\ ListBox_count(widgets'[w]) = ListBox_count(widgets[w]) - Len(clipcall'.indexes)]_vars

\* Indexes 4, 0 and 2, three ranges given out of order, were deleted from
\* five items and the second and fourth item are left.
C26_Witness ==
    /\ clipcall # Idle
    /\ clipcall.op = "delete"
    /\ clipcall.n = 1
    /\ clipcall.indexes = <<4, 0, 2>>
    /\ widgets[1].items = <<IntV(1), IntV(1)>>

\* C27 as stated: when a list box selection is copied, pasting it into a
\* list box appends the selected elements and nothing else, in the order of
\* the list, each as one element, also when a single str or list is selected.
C27_PasteAppendsTheSelection ==
    [][(clipcall' # clipcall /\ clipcall'.op = "copy" /\ IsListBox(widgets[clipcall'.w])
            /\ widgets[clipcall'.w].sel # {}) =>
          \A target \in 1..Len(widgets) :
              IsListBox(widgets[target]) =>
                  ListBox_paste_from_clipboard(widgets[target])'.items
                      = widgets[target].items \o SelectedValues(widgets[clipcall'.w])]_vars

---------------------------------------------------------------------------
(* The tooltip of a storage widget: BaseToolTip with its enter or select   *)
(* event bound to _schedule and its leave event bound to _cancel_schedule. *)
(* Tk holds the callbacks given to after and after_idle until they run or  *)
(* are cancelled, and runs them between the events in any order.           *)
MaxTipEvents == 4

\* The timeouts a tooltip is made with: ListboxTooltip(widget, 0) in the
\* iterable frame, and the default of 500 ms.
Timeouts == {0, 500}

TipCount == IF tipcall = Idle THEN 0 ELSE tipcall.n
TipCall(op) == [op |-> op, n |-> TipCount + 1]

\* BaseToolTip.__init__: nothing scheduled, the tooltip withdrawn
TipInit ==
    /\ schedule_id = 0
    /\ pending = {}
    /\ visible = FALSE
    /\ tipcall = Idle
    /\ timeout_ms \in Timeouts
    /\ pc = "tooltip"
    /\ ConvIdle
    /\ MemoIdle
    /\ TypesIdle
    /\ FramesIdle
    /\ RegIdle
    /\ ScriptIdle
    /\ CastIdle
    /\ ClipIdle
    /\ ExtendIdle

OutsideTip == <<convVars, memoVars, typeVars, frameVars, regVars, script, castVars, clipVars, extendVars>>

\* BaseToolTip._schedule, on <Enter> or <<ListboxSelect>>; value is what
\* _get_value() returns, the identifier the one Tk hands out.
schedule ==
    /\ TipCount < MaxTipEvents
    /\ \E value \in BOOLEAN :
          LET id == TipCount + 1
          IN IF ~value THEN UNCHANGED <<schedule_id, pending>>
             ELSE IF timeout_ms # 0
                  THEN /\ schedule_id' = id
                       /\ pending' = pending \cup {<<id, "after">>}
                  ELSE /\ pending' = pending \cup {<<id, "after_idle">>}
                       /\ UNCHANGED schedule_id
    /\ tipcall' = TipCall("schedule")
    /\ UNCHANGED <<visible, timeout_ms>>
    /\ UNCHANGED OutsideTip

\* BaseToolTip._cancel_schedule, on <Leave>
cancel_schedule ==
    /\ TipCount < MaxTipEvents
    /\ IF schedule_id # 0
       THEN /\ pending' = {cb \in pending : cb[1] # schedule_id}
            /\ schedule_id' = 0
       ELSE UNCHANGED <<schedule_id, pending>>
    /\ visible' = FALSE
    /\ tipcall' = TipCall("cancel_schedule")
    /\ UNCHANGED timeout_ms
    /\ UNCHANGED OutsideTip

\* Tk runs a callback it holds: lambda: self._show_tooltip(event)
show_tooltip ==
    /\ \E cb \in pending : pending' = pending \ {cb}
    /\ visible' = TRUE
    /\ UNCHANGED <<schedule_id, tipcall, timeout_ms>>
    /\ UNCHANGED OutsideTip

TipNext ==
    \/ schedule
    \/ cancel_schedule
    \/ show_tooltip

SpecTooltip == TipInit /\ [][TipNext]_vars

\* C29 as stated: once _cancel_schedule has run the tooltip is hidden and
\* stays hidden until the next enter or select event, whatever callbacks were
\* pending.
C29_HiddenAfterLeave ==
    (tipcall # Idle /\ tipcall.op = "cancel_schedule") => ~visible

---------------------------------------------------------------------------
(* A frame opened on a list box that holds objects: the host application   *)
(* has one or two objects in its ListBoxObjects, one of them selected or   *)
(* none, and has opened a frame of K1 for a new object or for the selected *)
(* one.                                                                    *)
HostItems == <<ObjectInfo("K1", [a |-> IntV(1), b |-> IntV(1)], NoneV),
               ObjectInfo("K1", [b |-> IntV(1)], StrV("n"))>>

HostLists ==
    UNION {{ListBox(SubSeq(HostItems, 1, k), {}), ListBox(SubSeq(HostItems, 1, k), {k - 1})} :
              k \in 1..Len(HostItems)}

EditInit ==
    /\ pc = "frames"
    /\ ExtIdle
    /\ listbox \in HostLists
    /\ \E old_data \in {NoneV} \cup {At(listbox.items, i) : i \in listbox.sel} :
          opened_frames = <<pack(NewObjectFrameStruct("K1", "", old_data,
                                                      ListBox_current(listbox), TRUE))>>
    /\ closed = FALSE
    /\ dialog = FALSE
    /\ last = "open"
    /\ ConvIdle
    /\ MemoIdle
    /\ TypesIdle

EditNext ==
    \/ TypeText \/ SelectValue \/ TypeNumber \/ LoadTemplate
    \/ NewNested \/ EditNested \/ Save \/ Close

SpecEdit == EditInit /\ [][EditNext]_vars

---------------------------------------------------------------------------
(* Claims about saving and closing frames *)

\* The items of the return widget of the displayed frame.
ReturnItems == 
    IF Len(opened_frames) = 1 THEN listbox.items
    ELSE opened_frames[Len(opened_frames) - 1].fields[Top.retAttr].items

\* C22 as stated: a save of a frame opened for a new object appends one
\* element to the return widget and keeps the others, whatever was done in
\* the frame; a save of a frame opened to edit the selected element replaces
\* the element at its index and keeps the count and the other elements.
C22_SaveAppendsOrReplaces ==
    [][(/\ last' \in {"save", "close_yes"}
        /\ ~dialog'
        /\ opened_frames # <<>>)
           => LET n == Len(opened_frames)
                  before == ReturnItems
                  after == IF n = 1 THEN listbox'.items
                           ELSE opened_frames'[n - 1].fields[Top.retAttr].items
              IN IF Top.old_data = NoneV
                 THEN /\ Len(after) = Len(before) + 1
                      /\ SubSeq(after, 1, Len(before)) = before
                 ELSE Top.editing_index # -1 =>
                      /\ Len(after) = Len(before)
                      /\ \A j \in 1..Len(before) :
                            j # Top.editing_index + 1 => after[j] = before[j]]_vars

\* Whether what the displayed frame shows differs from what it showed when
\* it was opened.
Changed(frame) ==
    IF frame.kind = "number" THEN frame.storage # frame.loaded
    ELSE ~DictEq(get_gui_data(frame.fields), frame.original)

CloseOutcomes == {"close", "close_yes", "close_no", "close_cancel"}

\* C23 as stated: closing a frame that allows saving and whose value was
\* changed after it was opened asks save, discard or cancel, and on cancel
\* the frame stays open with its values.
C23_CloseAsksWhenChanged ==
    [][(/\ last' \in CloseOutcomes
        /\ opened_frames # <<>>
        /\ Top.allow_save
        /\ Changed(Top))
           => /\ last' # "close"
              /\ last' = "close_cancel" =>
                    /\ opened_frames' = opened_frames
                    /\ listbox' = listbox
                    /\ closed' = closed]_vars

\* C24: no save and no close of a frame that does not allow saving changes
\* the items of the list box or of a field of a frame beneath it; a save of
\* such a frame shows an error and leaves the frames as they are; a frame
\* above one that does not allow saving does not allow it either.
C24_ReadOnlyFramesChangeNothing ==
    [][/\ \A i, j \in DOMAIN opened_frames' :
             (i < j /\ ~opened_frames'[i].allow_save) => ~opened_frames'[j].allow_save
       /\ (/\ last' \in CloseOutcomes \cup {"save"}
           /\ opened_frames # <<>>
           /\ ~Top.allow_save)
              => /\ listbox'.items = listbox.items
                 /\ \A i \in 1..(Len(opened_frames) - 1) :
                       opened_frames'[i].fields = opened_frames[i].fields
                 /\ last' = "save" => (dialog' /\ opened_frames' = opened_frames)]_vars

\* A save of a read-only frame opened from a read-only frame was refused.
C24_Witness ==
    /\ last = "save"
    /\ dialog
    /\ Len(opened_frames) = 2
    /\ ~opened_frames[1].allow_save
    /\ ~Top.allow_save

\* Whether two records are the same frame, whatever it displays.
SameFrame(f, g) ==
    /\ f.kind = g.kind
    /\ f.class_ = g.class_
    /\ f.retAttr = g.retAttr
    /\ f.old_data = g.old_data
    /\ f.editing_index = g.editing_index
    /\ f.allow_save = g.allow_save

\* C25: the frames form a stack.  A frame is opened on top of the others,
\* which stay as they are but for the one hidden; a frame is removed from
\* the top only and the one beneath is displayed; a handler changes no frame
\* but the top one and, on a save, the return widget beneath it; exactly the
\* top frame is displayed; the window is closed when it has no frame, and
\* Save and Close run on a window that has one.
C25_FramesFormAStack ==
    [][LET n == Len(opened_frames)
           m == Len(opened_frames')
       IN /\ m \in {n - 1, n, n + 1}
          /\ m = n + 1 => \A i \in 1..n : pack(opened_frames'[i]) = pack(opened_frames[i])
          /\ m = n - 1 =>
                /\ \A i \in 1..(m - 1) : opened_frames'[i] = opened_frames[i]
                /\ m >= 1 => SameFrame(opened_frames'[m], opened_frames[m])
          /\ m = n => \A i \in 1..(n - 1) : opened_frames'[i] = opened_frames[i]
          /\ \A i \in 1..m : opened_frames'[i].packed <=> i = m
          /\ closed' => m = 0
          /\ (n > 0 /\ m = 0) => closed'
          /\ last' \in CloseOutcomes \cup {"save"} => n > 0]_vars

\* A frame opened from a field was closed and the frame beneath is displayed.
C25_Witness ==
    /\ last = "close"
    /\ Len(opened_frames) = 1
    /\ Top.packed
    /\ ~closed

---------------------------------------------------------------------------
(* Loading an ObjectInfo into a struct frame and converting it back *)

\* The ObjectInfo objects whose load turns the frame before a step into the
\* displayed frame after it.
LoadedBy(before, after) ==
    {object_info \in Templates :
        object_info.class_ = before.class_ /\ after = StructFrame_load(before, object_info)}

\* to_object(ignore_checks=True) of the frame gives object_info back: no
\* exception, the same keys with the same values, the same nickname.
GivesBack(frame, object_info) ==
    LET r == to_object_unchecked(frame)
    IN /\ ~r.raised
       /\ r.val.data = object_info.data
       /\ r.val.nickname = object_info.nickname

\* C28 as stated: after load(object_info) on a struct frame, whatever the
\* frame held before, to_object(ignore_checks=True) returns an ObjectInfo
\* whose data and nickname are those of object_info.
C28_LoadThenToObjectGivesBack ==
    [][(last' = "load" /\ ~dialog')
          => \A object_info \in LoadedBy(Top, opened_frames'[Len(opened_frames)]) :
                GivesBack(opened_frames'[Len(opened_frames)], object_info)]_vars

====
